---------------------------- MODULE Spec2Model ----------------------------
(***************************************************************************)
(* Model of the hierarchical condensation pipeline: the reduction engine   *)
(* reduce_until_fit (utils.py), the retry wrapper run_llm, and the         *)
(* resumable chapter, arc and novel stages with their on-disk unit store.  *)
(*                                                                         *)
(* A text is a sequence of natural numbers.  Every symbol counts as one    *)
(* token for estimate_tokens; the symbol SEP stands for the "\n\n"         *)
(* delimiter that every join inserts between two units.  Raw chapter i     *)
(* is the one-symbol text <<i>>, so the position of a chapter stays        *)
(* visible in every text built from it.                                    *)
(*                                                                         *)
(* A file is either NoFile (the path does not exist) or the text it holds; *)
(* a zero-byte file is the empty text.                                     *)
(***************************************************************************)
EXTENDS Integers, Sequences, FiniteSets, TLC

VARIABLES
    pc,        \* position of the running process ("idle" when none runs)
    stage,     \* entry point that is running: chapter, arc, novel, reduce
    exit,      \* how the last process ended: none, ok, error, crash
    nRuns,     \* processes started so far
    llm,       \* state of the current run_llm invocation
    red,       \* frame of reduce_until_fit: arguments and locals
    grpOut,    \* <intermediate_dir>/<layer_name>/group_NNN.condensed.txt
    hist,      \* history of the current reduce_until_fit run
    rawN,      \* number of raw chapter files in data/raw/<novel>
    chOut,     \* data/chapters_condensed/<novel>/<stem>.condensed.txt
    arcOut,    \* data/arcs_condensed/<novel>/arc_NN.condensed.txt
    partOut,   \* data/novel_condensed/<novel>/novel.part_NNN.condensed.txt
    novelOut,  \* data/novel_condensed/<novel>/novel.condensed.txt
    manifest,  \* data/novel_condensed/<novel>/manifest.json
    loc,       \* locals of the running stage's process_novel
    audit,     \* bookkeeping over runs: who was invoked, what was rewritten
    pipe       \* run_pipeline: its position, flags and pending exception

vars == <<pc, stage, exit, nRuns, llm, red, grpOut, hist, rawN, chOut,
          arcOut, partOut, novelOut, manifest, loc, audit, pipe>>

storeVars == <<rawN, chOut, arcOut, partOut, novelOut, manifest>>

-----------------------------------------------------------------------------
(* Bounds of the model *)

MaxUnits == 3
MaxUnitLen == 2
MaxTok == 3
MaxDepth == 3
MaxRuns == 2
MaxStarts == 4
MaxRaw == 2

(* Program constants *)

MAX_LLM_RETRIES == 3
DEFAULT_UNITS_PER_GROUP == 10
CHAPTERS_PER_ARC == 10

(* Token budgets; both are read from the environment, and are scaled here  *)
(* to the size of the model's texts.                                       *)
DEFAULT_SAFE_TOKEN_LIMIT == 12
SAFE_OUTPUT_TOKEN_BUDGET == 3

(* ESTIMATED_COMPRESSION_RATIO = 0.45, in hundredths *)
ESTIMATED_COMPRESSION_RATIO_PCT == 45
SEP == 0

-----------------------------------------------------------------------------
(* Texts and files *)

NoFile == <<-1>>

NoneText == <<-2>>

(* manifest.json is absent. *)
NoManifest == [parts |-> 0, order |-> <<>>, generation_strategy |-> "none"]

estimate_tokens(text) == Len(text)

RECURSIVE Join(_)
Join(units) ==
    IF Len(units) = 0 THEN <<>>
    ELSE IF Len(units) = 1 THEN units[1]
    ELSE units[1] \o <<SEP>> \o Join(Tail(units))

isfile(f) == f # NoFile

getsize(f) == Len(f)

Min(a, b) == IF a <= b THEN a ELSE b

Halve(text) == SubSeq(text, 1, Len(text) \div 2)

(* What a file opened with mode "w" may hold when the writer is killed     *)
(* before close: nothing, or a strict non-empty prefix of the text.        *)
PartialWrites(text) == {SubSeq(text, 1, k) : k \in {0, 1} \cap 0..(Len(text) - 1)} \cup {<<>>}

(* What the provider may answer to a prompt carrying `text`: the text      *)
(* echoed, a strictly shorter text, or the empty string.                   *)
ProviderTexts(text) == {text, Halve(text), <<>>}

-----------------------------------------------------------------------------
(* Observability sinks and the state of run_pipeline *)

(* The SQLite file behind both sinks: "up", or "down" when every          *)
(* connection attempt raises sqlite3.OperationalError.                    *)
DbStates == {"up", "down"}

record_llm_usage_Propagates(db) == IF db = "up" THEN "recorded" ELSE "raised"

(* cost_tracking.record_llm_usage: the body is one try block whose        *)
(* handler prints a warning and returns a dummy event.                    *)
record_llm_usage(db) == IF db = "up" THEN "recorded" ELSE "caught"

(* guardrails.record_condensation: the same shape. *)
record_condensation(db) == IF db = "up" THEN "recorded" ELSE "caught"

(* What the caller of a sink does with its outcome: the return value is   *)
(* dropped, an exception leaves the caller's statement.                   *)
AfterSink(result) == IF result = "raised" THEN "abort" ELSE "continue"

NoErr == [type |-> "none", stage |-> "none", from |-> "none"]

(* Provider calls per stage; the count is kept in the "clean" environment *)
(* only, where every call is answered at the first attempt with a         *)
(* non-empty text and no process is killed.                                *)
NoCalls == [chapter |-> 0, arc |-> 0, novel |-> 0]

(* run_pipeline between two runs.  entry tells which entry points the     *)
(* operator uses: the stages' own, or run_pipeline.                       *)
PipeIdle(entry, db) ==
    [entry |-> entry, db |-> db, n |-> 0, at |-> "none", skip |-> {},
     skipped |-> {}, ran |-> {}, err |-> NoErr, fin |-> <<>>,
     out |-> NoErr, sinks |-> {}, env |-> "any", calls |-> NoCalls]

(* The process is killed: nothing of run_pipeline's frame is left, and    *)
(* its finally block does not run.                                         *)
PipeKilled ==
    [pipe EXCEPT !.at = "none", !.skip = {}, !.skipped = {}, !.ran = {},
                 !.err = NoErr, !.fin = <<>>, !.out = NoErr]

(* The sink's outcome joins the log of sink calls. *)
Sunk(sink, result) ==
    [pipe EXCEPT !.sinks = @ \cup {[sink |-> sink, result |-> result,
                                    caller |-> AfterSink(result)]}]

(* guardrail_callback, which a direct reduce_until_fit call leaves None *)
guardrail_callback ==
    IF stage = "reduce" THEN pipe
    ELSE Sunk("record_condensation", record_condensation(pipe.db))

(* The statement after the guardrail call is reached. *)
GuardrailReturns ==
    stage = "reduce" \/ AfterSink(record_condensation(pipe.db)) = "continue"

-----------------------------------------------------------------------------
(* run_llm: the retry loop around one provider call *)

LlmIdle == [inp |-> <<>>, out |-> NoneText, attempt |-> 0, calls |-> 0,
            fails |-> 0, err |-> "none", status |-> "idle", ret |-> "none"]

LlmCall(text, cont) ==
    [inp |-> text, out |-> NoneText, attempt |-> 1, calls |-> 0,
     fails |-> 0, err |-> "none", status |-> "running", ret |-> cont]

MayRetry_OneMore(attempt) == attempt <= MAX_LLM_RETRIES

(* range(1, MAX_LLM_RETRIES + 1): another attempt follows attempt n < MAX *)
MayRetry(attempt) == attempt < MAX_LLM_RETRIES

(* The stages' run_llm reports every provider response to the cost sink;  *)
(* the condense_fn of a direct reduce_until_fit call is the caller's.     *)
UsageSink == IF stage = "reduce" THEN "none" ELSE record_llm_usage(pipe.db)

(* Why an attempt may fail: the provider raises, the response text is     *)
(* None, or a statement inside the try block raises after the response.   *)
AttemptErrors ==
    {"provider_exception", "empty_response"} \cup
    (IF AfterSink(UsageSink) = "abort" THEN {"sink_exception"} ELSE {})

(* The sink log after an attempt that ended with error e, or with a text  *)
(* when e is "none".                                                       *)
AfterAttempt(e) ==
    IF e = "provider_exception" \/ stage = "reduce" THEN pipe
    ELSE Sunk("record_llm_usage", UsageSink)

(* llm.generate_with_usage(prompt) was called once more. *)
Counted(p) ==
    IF p.env = "clean" THEN [p EXCEPT !.calls[stage] = @ + 1] ELSE p

(* A provider that shortens whatever can be shortened. *)
Condensed(text) == IF Len(text) >= 2 THEN Halve(text) ELSE text

(* The texts the provider may answer with in the run's environment. *)
Answers(text) ==
    IF pipe.env = "clean" THEN {Condensed(text)} ELSE ProviderTexts(text)

(* The attempt yields a text: run_llm returns it. *)
LlmReturn ==
    /\ pc = "llm"
    /\ AfterSink(UsageSink) = "continue"
    /\ \E t \in Answers(llm.inp) :
         llm' = [llm EXCEPT !.out = t, !.calls = @ + 1, !.status = "returned"]
    /\ pc' = llm.ret
    /\ pipe' = Counted(AfterAttempt("none"))
    /\ UNCHANGED <<stage, exit, nRuns, red, grpOut, hist, storeVars, loc, audit>>

(* The attempt fails (the provider raises, or the response text is None)   *)
(* and the loop goes on to the next attempt.                               *)
LlmRetry ==
    /\ pc = "llm"
    /\ MayRetry(llm.attempt)
    /\ \E e \in AttemptErrors :
         /\ llm' = [llm EXCEPT !.attempt = @ + 1, !.calls = @ + 1,
                               !.fails = @ + 1, !.err = e]
         /\ pipe' = AfterAttempt(e)
    /\ UNCHANGED <<pc, stage, exit, nRuns, red, grpOut, hist, storeVars, loc, audit>>

(* The last attempt fails: RuntimeError leaves run_llm and ends the run.   *)
LlmExhausted ==
    /\ pc = "llm"
    /\ ~MayRetry(llm.attempt)
    /\ \E e \in AttemptErrors :
         /\ llm' = [llm EXCEPT !.calls = @ + 1, !.fails = @ + 1, !.err = e,
                               !.status = "raised"]
         /\ pipe' = AfterAttempt(e)
    /\ pc' = "idle"
    /\ exit' = "error"
    /\ UNCHANGED <<stage, nRuns, red, grpOut, hist, storeVars, loc, audit>>

-----------------------------------------------------------------------------
(* reduce_until_fit *)

GroupKeys == (0..MaxDepth) \X (1..(MaxUnits + 1))

NoGroupFiles == [k \in GroupKeys |-> NoFile]

RedIdle == [units |-> <<>>, max_tokens |-> 0, units_per_group |-> 1,
            layer |-> 0, intermediate_dir |-> FALSE, i |-> 0,
            condensed_groups |-> <<>>, result |-> NoneText,
            raised |-> "none"]

RedCall(units, max_tokens, units_per_group, intermediate_dir) ==
    [units |-> units, max_tokens |-> max_tokens,
     units_per_group |-> units_per_group, layer |-> 0,
     intermediate_dir |-> intermediate_dir, i |-> 0,
     condensed_groups |-> <<>>, result |-> NoneText, raised |-> "none"]

HistNew(units) ==
    [orig |-> units, layers |-> <<units>>, sent |-> <<>>, got |-> <<>>,
     res |-> <<>>, allShort |-> TRUE, allEcho |-> TRUE]

HistIdle == HistNew(<<>>)

AuditNew ==
    [rewrote |-> {}, loaded |-> {}, written |-> {}, torn |-> {}, made |-> {}]

(* The files of the novel stage that hold what a compressor call returned: *)
(* part n, intermediate group g or novel.condensed.txt, with the text inp  *)
(* the call was given.  Opening a file for writing empties it.             *)
Made(kind, n, g, inp) == [kind |-> kind, n |-> n, g |-> g, inp |-> inp]

Emptied(made, kind, n, g) ==
    {m \in made : ~(m.kind = kind /\ m.n = n /\ m.g = g)}

(* The non-empty part of a text that a killed write left in the file of a *)
(* unit: arc or chapter n, or the intermediate group g.                    *)
Torn(kind, n, g, part) ==
    IF part = <<>> THEN {}
    ELSE {[kind |-> kind, n |-> n, g |-> g, left |-> part]}

Fits_Strict(estimated_tokens, max_tokens) == estimated_tokens < max_tokens

(* estimated_tokens <= max_tokens *)
Fits(estimated_tokens, max_tokens) == estimated_tokens <= max_tokens

(* (len(units) + units_per_group - 1) // units_per_group *)
NumGroups(n, units_per_group) == (n + units_per_group - 1) \div units_per_group

GroupSlice_Exclusive(units, i, units_per_group) ==
    SubSeq(units, i + 1, Min(i + units_per_group, Len(units)) - 1)

(* units[i:i + units_per_group], i counted from 0 *)
GroupSlice(units, i, units_per_group) ==
    SubSeq(units, i + 1, Min(i + units_per_group, Len(units)))

(* i // units_per_group + 1 *)
GroupIndex(i, units_per_group) == (i \div units_per_group) + 1

AppendGroup_Front(condensed_groups, group_condensed) ==
    <<group_condensed>> \o condensed_groups

(* condensed_groups.append(group_condensed) *)
AppendGroup(condensed_groups, group_condensed) ==
    Append(condensed_groups, group_condensed)

GroupKey == <<red.layer, GroupIndex(red.i, red.units_per_group)>>

GroupOnDisk == red.intermediate_dir /\ isfile(grpOut[GroupKey])

Noted(h, inp, out) ==
    [h EXCEPT !.got = Append(@, out),
              !.allShort = @ /\ estimate_tokens(out) < estimate_tokens(inp),
              !.allEcho = @ /\ out = inp]

NoUnits_Ignored(units) == FALSE

(* not units *)
NoUnits(units) == Len(units) = 0

(* if not units: raise ValueError("Cannot reduce empty list of units") *)
RedEmpty ==
    /\ pc = "red_entry"
    /\ NoUnits(red.units)
    /\ red' = [red EXCEPT !.raised = "ValueError"]
    /\ pc' = "idle"
    /\ exit' = "error"
    /\ UNCHANGED <<pipe, stage, nRuns, llm, grpOut, hist, storeVars, loc, audit>>

(* Base case: the merged text fits, condense_fn(merged_text) is called. *)
RedBase ==
    /\ pc = "red_entry"
    /\ ~NoUnits(red.units)
    /\ Fits(estimate_tokens(Join(red.units)), red.max_tokens)
    /\ llm' = LlmCall(Join(red.units), "red_base_ret")
    /\ hist' = [hist EXCEPT !.sent = Append(@,
                   [layer |-> red.layer, group |-> 0, text |-> Join(red.units)])]
    /\ pc' = "llm"
    /\ UNCHANGED <<pipe, stage, exit, nRuns, red, grpOut, storeVars, loc, audit>>

(* Recursive case: the layer is cut into groups of units_per_group units. *)
RedSplit ==
    /\ pc = "red_entry"
    /\ ~NoUnits(red.units)
    /\ ~Fits(estimate_tokens(Join(red.units)), red.max_tokens)
    /\ red' = [red EXCEPT !.i = 0, !.condensed_groups = <<>>]
    /\ pc' = "red_group"
    /\ UNCHANGED <<pipe, stage, exit, nRuns, llm, grpOut, hist, storeVars, loc, audit>>

(* The group's file exists: its content is taken as the group's result. *)
RedGroupLoad ==
    /\ pc = "red_group"
    /\ red.i < Len(red.units)
    /\ GroupOnDisk
    /\ red' = [red EXCEPT
                 !.condensed_groups = AppendGroup(@, grpOut[GroupKey]),
                 !.i = @ + red.units_per_group]
    /\ hist' = [hist EXCEPT !.res = Append(@,
                   [layer |-> GroupKey[1], group |-> GroupKey[2],
                    text |-> grpOut[GroupKey], from |-> "disk"])]
    /\ audit' = [audit EXCEPT !.loaded = @ \cup
                   {[kind |-> "group", size |-> Min(1, getsize(grpOut[GroupKey]))]}]
    /\ UNCHANGED <<pipe, pc, stage, exit, nRuns, llm, grpOut, storeVars, loc>>

(* No file for the group: condense_fn("\n\n".join(group)) is called. *)
RedGroupCondense ==
    /\ pc = "red_group"
    /\ red.i < Len(red.units)
    /\ ~GroupOnDisk
    /\ LET group_merged == Join(GroupSlice(red.units, red.i, red.units_per_group))
       IN /\ llm' = LlmCall(group_merged, "red_group_ret")
          /\ hist' = [hist EXCEPT !.sent = Append(@,
                         [layer |-> GroupKey[1], group |-> GroupKey[2],
                          text |-> group_merged])]
    /\ pc' = "llm"
    /\ UNCHANGED <<pipe, stage, exit, nRuns, red, grpOut, storeVars, loc, audit>>

(* condense_fn returned and no intermediate_dir is set. *)
RedGroupKeep ==
    /\ pc = "red_group_ret"
    /\ ~red.intermediate_dir
    /\ red' = [red EXCEPT
                 !.condensed_groups = AppendGroup(@, llm.out),
                 !.i = @ + red.units_per_group]
    /\ hist' = [Noted(hist, llm.inp, llm.out) EXCEPT !.res = Append(@,
                   [layer |-> GroupKey[1], group |-> GroupKey[2],
                    text |-> llm.out, from |-> "llm"])]
    /\ pc' = "red_group"
    /\ llm' = LlmIdle
    /\ GuardrailReturns
    /\ pipe' = guardrail_callback
    /\ UNCHANGED <<stage, exit, nRuns, grpOut, storeVars, loc, audit>>

(* condense_fn returned: open(group_filepath, "w") creates or truncates. *)
RedGroupOpen ==
    /\ pc = "red_group_ret"
    /\ red.intermediate_dir
    /\ audit' = [audit EXCEPT !.rewrote = @ \cup
                   (IF isfile(grpOut[GroupKey]) /\ getsize(grpOut[GroupKey]) > 0
                    THEN {"group"} ELSE {}),
                   !.made = Emptied(@, "group", 0, GroupKey)]
    /\ grpOut' = [grpOut EXCEPT ![GroupKey] = <<>>]
    /\ hist' = Noted(hist, llm.inp, llm.out)
    /\ pc' = "red_group_write"
    /\ GuardrailReturns
    /\ pipe' = guardrail_callback
    /\ UNCHANGED <<stage, exit, nRuns, llm, red, storeVars, loc>>

(* f.write(group_condensed), close, condensed_groups.append(...) *)
RedGroupWrite ==
    /\ pc = "red_group_write"
    /\ grpOut' = [grpOut EXCEPT ![GroupKey] = llm.out]
    /\ red' = [red EXCEPT
                 !.condensed_groups = AppendGroup(@, llm.out),
                 !.i = @ + red.units_per_group]
    /\ hist' = [hist EXCEPT !.res = Append(@,
                   [layer |-> GroupKey[1], group |-> GroupKey[2],
                    text |-> llm.out, from |-> "llm"])]
    /\ audit' = [audit EXCEPT !.made = @ \cup
                   {Made("group", 0, GroupKey, llm.inp)}]
    /\ pc' = "red_group"
    /\ llm' = LlmIdle
    /\ UNCHANGED <<pipe, stage, exit, nRuns, storeVars, loc>>

(* All groups done: recurse with condensed_groups as the new units. *)
RedRecurse ==
    /\ pc = "red_group"
    /\ red.i >= Len(red.units)
    /\ red.layer < MaxDepth
    /\ red' = [red EXCEPT !.units = red.condensed_groups, !.layer = @ + 1,
                          !.i = 0, !.condensed_groups = <<>>]
    /\ hist' = [hist EXCEPT !.layers = Append(@, red.condensed_groups)]
    /\ pc' = "red_entry"
    /\ UNCHANGED <<pipe, stage, exit, nRuns, llm, grpOut, storeVars, loc, audit>>

(* The base-case call returned: its text is the result of every frame. *)
RedReturn ==
    /\ pc = "red_base_ret"
    /\ stage = "reduce"
    /\ red' = [red EXCEPT !.result = llm.out]
    /\ hist' = Noted(hist, llm.inp, llm.out)
    /\ pc' = "idle"
    /\ exit' = "ok"
    /\ llm' = LlmIdle
    /\ UNCHANGED <<pipe, stage, nRuns, grpOut, storeVars, loc, audit>>

LocIdle == [k |-> 0]

(* The locals of a killed stage are lost; the arguments of a direct       *)
(* reduce_until_fit call stay with its caller.                            *)
AfterKill == IF stage = "reduce" THEN loc ELSE LocIdle

(* The process dies between two steps; its memory is lost, the files     *)
(* stay.  Without an intermediate_dir a killed call leaves nothing.       *)
CrashReduce ==
    /\ pc \in {"red_entry", "red_group", "red_group_ret", "red_base_ret", "llm"}
    /\ stage = "reduce"
    /\ red.intermediate_dir
    /\ pc' = "idle"
    /\ exit' = "crash"
    /\ llm' = LlmIdle
    /\ red' = RedIdle
    /\ hist' = HistIdle
    /\ pipe' = PipeKilled
    /\ UNCHANGED <<stage, nRuns, grpOut, storeVars, loc, audit>>

(* The process dies while the group file is open for writing: the file    *)
(* keeps whatever part of the text had reached the disk.                   *)
CrashGroupWrite ==
    /\ pc = "red_group_write"
    /\ \E part \in PartialWrites(llm.out) :
         /\ grpOut' = [grpOut EXCEPT ![GroupKey] = part]
         /\ audit' = [audit EXCEPT !.torn = @ \cup
                        Torn("group", 0, GroupKey, part)]
    /\ pc' = "idle"
    /\ exit' = "crash"
    /\ llm' = LlmIdle
    /\ red' = RedIdle
    /\ hist' = HistIdle
    /\ loc' = AfterKill
    /\ pipe' = PipeKilled
    /\ UNCHANGED <<stage, nRuns, storeVars>>

(* reduce_until_fit is called (again) with the caller's arguments. *)
StartReduce ==
    /\ pc = "idle"
    /\ stage = "reduce"
    /\ nRuns < MaxRuns
    /\ nRuns = 0 \/ loc.intermediate_dir
    /\ nRuns' = nRuns + 1
    /\ red' = RedCall(loc.units, loc.max_tokens, loc.units_per_group,
                      loc.intermediate_dir)
    /\ hist' = HistNew(loc.units)
    /\ llm' = LlmIdle
    /\ exit' = "none"
    /\ pc' = "red_entry"
    /\ UNCHANGED <<pipe, stage, grpOut, storeVars, loc, audit>>

(* Unit k of an input list is the symbol k repeated. *)
UnitOf(k, len) == [j \in 1..len |-> k]

UnitLists ==
    UNION {{[k \in 1..n |-> UnitOf(k, lens[k])] :
               lens \in [1..n -> 1..MaxUnitLen]} : n \in 0..MaxUnits}

InitReduce ==
    /\ pc = "idle"
    /\ stage = "reduce"
    /\ exit = "none"
    /\ nRuns = 0
    /\ llm = LlmIdle
    /\ red = RedIdle
    /\ grpOut = NoGroupFiles
    /\ hist = HistIdle
    /\ rawN = 0
    /\ chOut = <<>>
    /\ arcOut = <<>>
    /\ partOut = <<>>
    /\ novelOut = NoFile
    /\ manifest = NoManifest
    /\ audit = AuditNew
    /\ pipe = PipeIdle("stages", "up")
    /\ \E units \in UnitLists, max_tokens \in 1..MaxTok,
          units_per_group \in {2, 3}, intermediate_dir \in BOOLEAN :
         loc = [units |-> units, max_tokens |-> max_tokens,
                units_per_group |-> units_per_group,
                intermediate_dir |-> intermediate_dir]

NextReduce ==
    \/ StartReduce
    \/ RedEmpty
    \/ RedBase
    \/ RedSplit
    \/ RedGroupLoad
    \/ RedGroupCondense
    \/ RedGroupKeep
    \/ RedGroupOpen
    \/ RedGroupWrite
    \/ RedRecurse
    \/ RedReturn
    \/ CrashReduce
    \/ CrashGroupWrite
    \/ LlmReturn
    \/ LlmRetry
    \/ LlmExhausted

SpecReduce == InitReduce /\ [][NextReduce]_vars

-----------------------------------------------------------------------------
(* File names.  A name is a stem and a list of extensions; raw chapters    *)
(* are named so that sorting the names sorts the stems.                    *)

RawName(i) == [stem |-> i, ext |-> <<".txt">>]

RECURSIVE ReplaceTxt(_)
ReplaceTxt(ext) ==
    IF ext = <<>> THEN <<>>
    ELSE (IF Head(ext) = ".txt" THEN <<".condensed", ".txt">> ELSE <<Head(ext)>>)
             \o ReplaceTxt(Tail(ext))

(* input_filename.replace(".txt", ".condensed.txt") *)
get_expected_output_filename(input_filename) ==
    [input_filename EXCEPT !.ext = ReplaceTxt(@)]

(* f.endswith(".condensed.txt") *)
EndsWithCondensedTxt(f) ==
    /\ Len(f.ext) >= 2
    /\ f.ext[Len(f.ext) - 1] = ".condensed"
    /\ f.ext[Len(f.ext)] = ".txt"

RECURSIVE Sorted_Descending(_)
Sorted_Descending(S) ==
    IF S = {} THEN <<>>
    ELSE LET m == CHOOSE x \in S : \A y \in S : x >= y
         IN <<m>> \o Sorted_Descending(S \ {m})

(* sorted(...) *)
RECURSIVE Sorted(_)
Sorted(S) ==
    IF S = {} THEN <<>>
    ELSE LET m == CHOOSE x \in S : \A y \in S : x <= y
         IN <<m>> \o Sorted(S \ {m})

Range(seq) == {seq[k] : k \in DOMAIN seq}

-----------------------------------------------------------------------------
(* Chapter stage: chapter_condensation.process_novel *)

(* os.listdir of data/chapters_condensed/<novel> *)
ChapterDirListing ==
    {get_expected_output_filename(RawName(i)) :
        i \in {j \in DOMAIN chOut : isfile(chOut[j])}}

ChapterSizeOk_AllowEmpty(size) == size >= 0

(* os.path.getsize(output_path) > 0 *)
ChapterSizeOk(size) == size > 0

ChapterDone(chapter_file) ==
    LET expected_output == get_expected_output_filename(chapter_file)
        existing_outputs == {f \in ChapterDirListing : EndsWithCondensedTxt(f)}
    IN /\ expected_output \in existing_outputs
       /\ ChapterSizeOk(getsize(chOut[expected_output.stem]))

detect_missing_chapters ==
    LET all_chapters == [i \in 1..rawN |-> RawName(i)]
    IN [all |-> all_chapters,
        done |-> SelectSeq(all_chapters, LAMBDA f : ChapterDone(f)),
        missing |-> SelectSeq(all_chapters, LAMBDA f : ~ChapterDone(f))]

Stages == {"chapter", "arc", "novel"}

MayStart == pc = "idle" /\ stage # "reduce" /\ nRuns < MaxStarts

(* run_pipeline has reached the stage's block and calls process_novel. *)
Called(s) ==
    pc = "idle" /\ pipe.at = s /\ s \notin pipe.skip /\ stage = "none"

(* process_novel of stage s may be entered: from its own entry point, or  *)
(* from run_pipeline.                                                      *)
CanStart(s) == IF pipe.entry = "stages" THEN MayStart ELSE Called(s)

(* Locals of a chapter or arc run, with the store as the run found it. *)
StageLoc(kind, snap, det) ==
    [prevStage |-> stage, prevExit |-> exit, snap |-> snap,
     snapWritten |-> {w.n : w \in {x \in audit.written : x.kind = kind}},
     all |-> det.all, done |-> det.done, missing |-> det.missing,
     k |-> 1, invoked |-> {}, wrote |-> {}]

(* done_count == total_chapters: the stage logs and returns. *)
ChapterSkip ==
    /\ CanStart("chapter")
    /\ Len(detect_missing_chapters.done) = Len(detect_missing_chapters.all)
    /\ nRuns' = nRuns + 1
    /\ stage' = "chapter"
    /\ loc' = StageLoc("chapter", chOut, detect_missing_chapters)
    /\ exit' = "ok"
    /\ llm' = LlmIdle
    /\ red' = RedIdle
    /\ hist' = HistIdle
    /\ UNCHANGED <<pipe, pc, grpOut, storeVars, audit>>

(* Some chapter is missing: the loop over missing_chapters begins. *)
ChapterStart ==
    /\ CanStart("chapter")
    /\ Len(detect_missing_chapters.done) # Len(detect_missing_chapters.all)
    /\ nRuns' = nRuns + 1
    /\ stage' = "chapter"
    /\ loc' = StageLoc("chapter", chOut, detect_missing_chapters)
    /\ exit' = "none"
    /\ llm' = LlmIdle
    /\ pc' = "ch_loop"
    /\ red' = RedIdle
    /\ hist' = HistIdle
    /\ UNCHANGED <<pipe, grpOut, storeVars, audit>>

(* The raw chapter is read and handed to run_llm.  Raw chapter i is the    *)
(* text <<i>>: one narrative paragraph, which the pre-filter keeps.        *)
ChapterCondense ==
    /\ pc = "ch_loop"
    /\ loc.k <= Len(loc.missing)
    /\ LET filename == loc.missing[loc.k]
       IN /\ llm' = LlmCall(<<filename.stem>>, "ch_ret")
          /\ loc' = [loc EXCEPT !.invoked = @ \cup {filename.stem}]
    /\ pc' = "llm"
    /\ UNCHANGED <<pipe, stage, exit, nRuns, red, grpOut, hist, storeVars, audit>>

(* open(output_path, "w") creates or truncates the chapter's file. *)
ChapterOpen ==
    /\ pc = "ch_ret"
    /\ LET i == get_expected_output_filename(loc.missing[loc.k]).stem
       IN /\ audit' = [audit EXCEPT !.rewrote = @ \cup
                         (IF isfile(chOut[i]) /\ getsize(chOut[i]) > 0
                          THEN {"chapter"} ELSE {})]
          /\ chOut' = [chOut EXCEPT ![i] = <<>>]
          /\ loc' = [loc EXCEPT !.wrote = @ \cup {i}]
    /\ pc' = "ch_write"
    /\ GuardrailReturns
    /\ pipe' = guardrail_callback
    /\ UNCHANGED <<stage, exit, nRuns, llm, red, grpOut, hist, rawN, arcOut,
                   partOut, novelOut, manifest>>

(* f.write(condensed_text) and close; the loop moves on. *)
ChapterWrite ==
    /\ pc = "ch_write"
    /\ LET i == get_expected_output_filename(loc.missing[loc.k]).stem
       IN /\ chOut' = [chOut EXCEPT ![i] = llm.out]
          /\ audit' = [audit EXCEPT !.written = @ \cup
                         {[kind |-> "chapter", n |-> i]}]
    /\ loc' = [loc EXCEPT !.k = @ + 1]
    /\ llm' = LlmIdle
    /\ pc' = "ch_loop"
    /\ UNCHANGED <<pipe, stage, exit, nRuns, red, grpOut, hist, rawN, arcOut,
                   partOut, novelOut, manifest>>

(* The loop is over: process_novel returns. *)
ChapterFinish ==
    /\ pc = "ch_loop"
    /\ loc.k > Len(loc.missing)
    /\ pc' = "idle"
    /\ exit' = "ok"
    /\ UNCHANGED <<pipe, stage, nRuns, llm, red, grpOut, hist, storeVars, loc, audit>>

(* The process dies while the chapter's file is open for writing. *)
CrashChapterWrite ==
    /\ pc = "ch_write"
    /\ LET i == get_expected_output_filename(loc.missing[loc.k]).stem
       IN \E part \in PartialWrites(llm.out) :
             /\ chOut' = [chOut EXCEPT ![i] = part]
             /\ audit' = [audit EXCEPT !.torn = @ \cup
                            Torn("chapter", i, <<0, 0>>, part)]
    /\ pc' = "idle"
    /\ exit' = "crash"
    /\ llm' = LlmIdle
    /\ loc' = LocIdle
    /\ pipe' = PipeKilled
    /\ UNCHANGED <<stage, nRuns, red, grpOut, hist, rawN, arcOut, partOut,
                   novelOut, manifest>>

-----------------------------------------------------------------------------
(* Arc stage: arc_condensation.process_novel *)

RECURSIVE Digits(_)
Digits(n) == IF n < 10 THEN <<n>> ELSE Digits(n \div 10) \o <<n % 10>>

(* f"{arc_index:02d}" *)
Format02d(n) == IF n < 10 THEN <<0, n>> ELSE Digits(n)

RECURSIVE ParseInt(_)
ParseInt(digits) ==
    IF digits = <<>> THEN 0
    ELSE 10 * ParseInt(SubSeq(digits, 1, Len(digits) - 1)) + digits[Len(digits)]

(* f"arc_{arc_index:02d}.condensed.txt" *)
get_arc_filename(arc_index) ==
    [prefix |-> "arc_", digits |-> Format02d(arc_index),
     ext |-> <<".condensed", ".txt">>]

NoIndex == -1

(* re.match(r"arc_(\d+)\.condensed\.txt$", filename) *)
get_arc_index_from_filename(filename) ==
    IF /\ filename.prefix = "arc_"
       /\ Len(filename.digits) >= 1
       /\ filename.ext = <<".condensed", ".txt">>
    THEN ParseInt(filename.digits)
    ELSE NoIndex

(* sorted .condensed.txt names of data/chapters_condensed/<novel> *)
chapter_files ==
    LET stems == Sorted({f.stem : f \in {g \in ChapterDirListing :
                                            EndsWithCondensedTxt(g)}})
    IN [k \in DOMAIN stems |-> get_expected_output_filename(RawName(stems[k]))]

(* for i in range(0, len(chapter_files), chapters_per_arc): the slice     *)
(* chapter_files[i:i + chapters_per_arc] is appended under arc_index,     *)
(* which is then incremented.                                              *)
RECURSIVE ArcRangesFrom(_, _, _, _, _)
ArcRangesFrom(files, chapters_per_arc, i, arc_index, arcs) ==
    IF i >= Len(files) THEN arcs
    ELSE ArcRangesFrom(files, chapters_per_arc, i + chapters_per_arc,
                       arc_index + 1,
                       Append(arcs, [arc_index |-> arc_index,
                                     chapters |-> GroupSlice(files, i,
                                                     chapters_per_arc)]))

compute_arc_ranges(files, chapters_per_arc) ==
    ArcRangesFrom(files, chapters_per_arc, 0, 1, <<>>)

(* os.listdir of data/arcs_condensed/<novel> *)
ArcDirListing ==
    {get_arc_filename(a) : a \in {b \in DOMAIN arcOut : isfile(arcOut[b])}}

(* os.path.getsize(output_path) > 0 *)
ArcSizeOk(size) == size > 0

(* done_arc_indices taken as every index found in the output directory. *)
detect_missing_arcs_Unfiltered ==
    LET all_arcs == compute_arc_ranges(chapter_files, CHAPTERS_PER_ARC)
        existing_arc_indices ==
            {get_arc_index_from_filename(f) :
                f \in {g \in ArcDirListing :
                         /\ get_arc_index_from_filename(g) # NoIndex
                         /\ ArcSizeOk(getsize(
                                arcOut[get_arc_index_from_filename(g)]))}}
        expected_arc_indices == {all_arcs[k].arc_index : k \in DOMAIN all_arcs}
    IN [all |-> all_arcs,
        done |-> Sorted(existing_arc_indices),
        missing |-> Sorted(expected_arc_indices \ existing_arc_indices)]

detect_missing_arcs ==
    LET all_arcs == compute_arc_ranges(chapter_files, CHAPTERS_PER_ARC)
        existing_arc_indices ==
            {get_arc_index_from_filename(f) :
                f \in {g \in ArcDirListing :
                         /\ get_arc_index_from_filename(g) # NoIndex
                         /\ ArcSizeOk(getsize(
                                arcOut[get_arc_index_from_filename(g)]))}}
        expected_arc_indices == {all_arcs[k].arc_index : k \in DOMAIN all_arcs}
    IN [all |-> all_arcs,
        done |-> Sorted(existing_arc_indices \cap expected_arc_indices),
        missing |-> Sorted(expected_arc_indices \ existing_arc_indices)]

(* No condensed chapter file to read: ValueError. *)
ArcNoInput ==
    /\ CanStart("arc")
    /\ chapter_files = <<>>
    /\ nRuns' = nRuns + 1
    /\ stage' = "arc"
    /\ loc' = LocIdle
    /\ exit' = "error"
    /\ llm' = LlmIdle
    /\ red' = RedIdle
    /\ hist' = HistIdle
    /\ UNCHANGED <<pipe, pc, grpOut, storeVars, audit>>

(* done_count == total_arcs: the stage logs and returns. *)
ArcSkip ==
    /\ CanStart("arc")
    /\ chapter_files # <<>>
    /\ Len(detect_missing_arcs.done) = Len(detect_missing_arcs.all)
    /\ nRuns' = nRuns + 1
    /\ stage' = "arc"
    /\ loc' = StageLoc("arc", arcOut, detect_missing_arcs)
    /\ exit' = "ok"
    /\ llm' = LlmIdle
    /\ red' = RedIdle
    /\ hist' = HistIdle
    /\ UNCHANGED <<pipe, pc, grpOut, storeVars, audit>>

(* Some arc is missing: the loop over missing_arc_indices begins. *)
ArcStart ==
    /\ CanStart("arc")
    /\ chapter_files # <<>>
    /\ Len(detect_missing_arcs.done) # Len(detect_missing_arcs.all)
    /\ nRuns' = nRuns + 1
    /\ stage' = "arc"
    /\ loc' = StageLoc("arc", arcOut, detect_missing_arcs)
    /\ exit' = "none"
    /\ llm' = LlmIdle
    /\ pc' = "arc_loop"
    /\ red' = RedIdle
    /\ hist' = HistIdle
    /\ UNCHANGED <<pipe, grpOut, storeVars, audit>>

(* The arc's chapter files are read, joined and handed to run_llm. *)
ArcCondense ==
    /\ pc = "arc_loop"
    /\ loc.k <= Len(loc.missing)
    /\ LET arc_index == loc.missing[loc.k]
           arc_chapters == loc.all[arc_index].chapters
           merged_text == Join([j \in DOMAIN arc_chapters |->
                                   chOut[arc_chapters[j].stem]])
       IN /\ llm' = LlmCall(merged_text, "arc_ret")
          /\ loc' = [loc EXCEPT !.invoked = @ \cup {arc_index}]
    /\ pc' = "llm"
    /\ UNCHANGED <<pipe, stage, exit, nRuns, red, grpOut, hist, storeVars, audit>>

(* open(output_path, "w") creates or truncates the arc's file. *)
ArcOpen ==
    /\ pc = "arc_ret"
    /\ LET a == get_arc_index_from_filename(get_arc_filename(loc.missing[loc.k]))
       IN /\ audit' = [audit EXCEPT !.rewrote = @ \cup
                         (IF isfile(arcOut[a]) /\ getsize(arcOut[a]) > 0
                          THEN {"arc"} ELSE {})]
          /\ arcOut' = [arcOut EXCEPT ![a] = <<>>]
          /\ loc' = [loc EXCEPT !.wrote = @ \cup {a}]
    /\ pc' = "arc_write"
    /\ GuardrailReturns
    /\ pipe' = guardrail_callback
    /\ UNCHANGED <<stage, exit, nRuns, llm, red, grpOut, hist, rawN, chOut,
                   partOut, novelOut, manifest>>

(* The arc's text written over the arc's first chapter file. *)
ArcWrite_Upstream ==
    /\ pc = "arc_write"
    /\ LET a == loc.missing[loc.k]
       IN /\ chOut' = [chOut EXCEPT ![loc.all[a].chapters[1].stem] = llm.out]
          /\ audit' = [audit EXCEPT !.written = @ \cup
                         {[kind |-> "arc", n |-> a]}]
    /\ loc' = [loc EXCEPT !.k = @ + 1]
    /\ llm' = LlmIdle
    /\ pc' = "arc_loop"
    /\ UNCHANGED <<pipe, stage, exit, nRuns, red, grpOut, hist, rawN, arcOut,
                   partOut, novelOut, manifest>>

(* f.write(condensed_arc) and close; the loop moves on. *)
ArcWrite ==
    /\ pc = "arc_write"
    /\ LET a == get_arc_index_from_filename(get_arc_filename(loc.missing[loc.k]))
       IN /\ arcOut' = [arcOut EXCEPT ![a] = llm.out]
          /\ audit' = [audit EXCEPT !.written = @ \cup
                         {[kind |-> "arc", n |-> a]}]
    /\ loc' = [loc EXCEPT !.k = @ + 1]
    /\ llm' = LlmIdle
    /\ pc' = "arc_loop"
    /\ UNCHANGED <<pipe, stage, exit, nRuns, red, grpOut, hist, rawN, chOut,
                   partOut, novelOut, manifest>>

(* The loop is over: process_novel returns. *)
ArcFinish ==
    /\ pc = "arc_loop"
    /\ loc.k > Len(loc.missing)
    /\ pc' = "idle"
    /\ exit' = "ok"
    /\ UNCHANGED <<pipe, stage, nRuns, llm, red, grpOut, hist, storeVars, loc, audit>>

(* The process dies while the arc's file is open for writing. *)
CrashArcWrite ==
    /\ pc = "arc_write"
    /\ LET a == get_arc_index_from_filename(get_arc_filename(loc.missing[loc.k]))
       IN \E part \in PartialWrites(llm.out) :
             /\ arcOut' = [arcOut EXCEPT ![a] = part]
             /\ audit' = [audit EXCEPT !.torn = @ \cup
                            Torn("arc", a, <<0, 0>>, part)]
    /\ pc' = "idle"
    /\ exit' = "crash"
    /\ llm' = LlmIdle
    /\ loc' = LocIdle
    /\ pipe' = PipeKilled
    /\ UNCHANGED <<stage, nRuns, red, grpOut, hist, rawN, chOut, partOut,
                   novelOut, manifest>>

-----------------------------------------------------------------------------
(* Novel stage: novel_condensation.process_novel *)

(* int(estimate_tokens(input_text) * ESTIMATED_COMPRESSION_RATIO) *)
estimate_output_tokens(input_text) ==
    (estimate_tokens(input_text) * ESTIMATED_COMPRESSION_RATIO_PCT) \div 100

(* int(SAFE_OUTPUT_TOKEN_BUDGET / ESTIMATED_COMPRESSION_RATIO) *)
MAX_INPUT_FOR_OUTPUT_BUDGET ==
    (SAFE_OUTPUT_TOKEN_BUDGET * 100) \div ESTIMATED_COMPRESSION_RATIO_PCT

(* The loop of split_units_for_output_budget from unit i on. *)
RECURSIVE SplitFrom(_, _, _, _, _, _)
SplitFrom(units, i, chunks, current_chunk, current_tokens, max_input_tokens) ==
    IF i > Len(units)
    THEN IF current_chunk # <<>> THEN Append(chunks, current_chunk) ELSE chunks
    ELSE LET unit == units[i]
             unit_tokens == estimate_tokens(unit)
             closed == IF current_chunk # <<>>
                       THEN Append(chunks, current_chunk) ELSE chunks
         IN IF unit_tokens > max_input_tokens
            THEN SplitFrom(units, i + 1, Append(closed, <<unit>>), <<>>, 0,
                           max_input_tokens)
            ELSE IF current_tokens + unit_tokens > max_input_tokens
            THEN SplitFrom(units, i + 1, closed, <<unit>>, unit_tokens,
                           max_input_tokens)
            ELSE SplitFrom(units, i + 1, chunks, Append(current_chunk, unit),
                           current_tokens + unit_tokens, max_input_tokens)

split_units_for_output_budget_OnePerChunk(units, max_input_tokens) ==
    [i \in 1..Len(units) |-> <<units[i]>>]

split_units_for_output_budget(units, max_input_tokens) ==
    SplitFrom(units, 1, <<>>, <<>>, 0, max_input_tokens)

(* f"{part_num:03d}" *)
Format03d(n) == IF n < 10 THEN <<0, 0, n>>
                ELSE IF n < 100 THEN <<0>> \o Digits(n) ELSE Digits(n)

(* f"novel.part_{part_num:03d}.condensed.txt" *)
PartFilename(part_num) ==
    [prefix |-> "novel.part_", digits |-> Format03d(part_num),
     ext |-> <<".condensed", ".txt">>]

NovelFilename ==
    [prefix |-> "novel", digits |-> <<>>, ext |-> <<".condensed", ".txt">>]

(* sorted .condensed.txt names of data/arcs_condensed/<novel> *)
arc_files ==
    LET idx == Sorted({get_arc_index_from_filename(f) : f \in ArcDirListing})
    IN [k \in DOMAIN idx |-> get_arc_filename(idx[k])]

arc_texts ==
    [k \in DOMAIN arc_files |->
        arcOut[get_arc_index_from_filename(arc_files[k])]]

write_manifest_Reversed(parts, generation_strategy) ==
    [parts |-> Len(parts),
     order |-> [k \in DOMAIN parts |-> parts[Len(parts) + 1 - k].filename],
     generation_strategy |-> generation_strategy]

(* json.dump of the manifest by write_manifest *)
write_manifest(parts, generation_strategy) ==
    [parts |-> Len(parts),
     order |-> [k \in DOMAIN parts |-> parts[k].filename],
     generation_strategy |-> generation_strategy]

NovelLoc(units_for_output) ==
    [prevStage |-> stage, prevExit |-> exit,
     snap |-> [grp |-> grpOut, part |-> partOut, novel |-> novelOut],
     arc_texts |-> arc_texts, units_for_output |-> units_for_output,
     chunks |-> <<>>, k |-> 1, output_parts |-> <<>>, invoked |-> 0,
     wrote |-> {}]

(* No condensed arc file to read: ValueError. *)
NovelNoInput ==
    /\ CanStart("novel")
    /\ arc_files = <<>>
    /\ nRuns' = nRuns + 1
    /\ stage' = "novel"
    /\ loc' = LocIdle
    /\ exit' = "error"
    /\ llm' = LlmIdle
    /\ red' = RedIdle
    /\ hist' = HistIdle
    /\ UNCHANGED <<pipe, pc, grpOut, storeVars, audit>>

(* The merged arcs exceed DEFAULT_SAFE_TOKEN_LIMIT: reduce_until_fit is    *)
(* called with the arcs as units and the output directory as               *)
(* intermediate_dir.                                                        *)
NovelReduce ==
    /\ CanStart("novel")
    /\ arc_files # <<>>
    /\ estimate_tokens(Join(arc_texts)) > DEFAULT_SAFE_TOKEN_LIMIT
    /\ nRuns' = nRuns + 1
    /\ stage' = "novel"
    /\ loc' = NovelLoc(<<>>)
    /\ exit' = "none"
    /\ llm' = LlmIdle
    /\ red' = RedCall(arc_texts, DEFAULT_SAFE_TOKEN_LIMIT,
                      DEFAULT_UNITS_PER_GROUP, TRUE)
    /\ hist' = HistNew(arc_texts)
    /\ pc' = "red_entry"
    /\ UNCHANGED <<pipe, grpOut, storeVars, audit>>

(* The merged arcs fit: the arcs themselves are the units of phase 2. *)
NovelDirect ==
    /\ CanStart("novel")
    /\ arc_files # <<>>
    /\ ~(estimate_tokens(Join(arc_texts)) > DEFAULT_SAFE_TOKEN_LIMIT)
    /\ nRuns' = nRuns + 1
    /\ stage' = "novel"
    /\ loc' = NovelLoc(arc_texts)
    /\ exit' = "none"
    /\ llm' = LlmIdle
    /\ red' = RedIdle
    /\ hist' = HistIdle
    /\ pc' = "nov_phase2"
    /\ UNCHANGED <<pipe, grpOut, storeVars, audit>>

(* reduce_until_fit returned: its result is the single unit of phase 2. *)
NovelReduced ==
    /\ pc = "red_base_ret"
    /\ stage = "novel"
    /\ red' = [red EXCEPT !.result = llm.out]
    /\ hist' = Noted(hist, llm.inp, llm.out)
    /\ loc' = [loc EXCEPT !.units_for_output = <<llm.out>>]
    /\ llm' = LlmIdle
    /\ pc' = "nov_phase2"
    /\ GuardrailReturns
    /\ pipe' = guardrail_callback
    /\ UNCHANGED <<stage, exit, nRuns, grpOut, storeVars, audit>>

needs_output_chunking ==
    estimate_output_tokens(Join(loc.units_for_output)) > SAFE_OUTPUT_TOKEN_BUDGET

(* The estimated output exceeds the budget: the units are cut into chunks. *)
NovelChunk ==
    /\ pc = "nov_phase2"
    /\ needs_output_chunking
    /\ loc' = [loc EXCEPT
                 !.chunks = split_units_for_output_budget(
                                loc.units_for_output, MAX_INPUT_FOR_OUTPUT_BUDGET),
                 !.k = 1, !.output_parts = <<>>]
    /\ pc' = "part_loop"
    /\ UNCHANGED <<pipe, stage, exit, nRuns, llm, red, grpOut, hist, storeVars, audit>>

(* The part's file exists: its content is taken as the part. *)
PartLoad ==
    /\ pc = "part_loop"
    /\ loc.k <= Len(loc.chunks)
    /\ isfile(partOut[loc.k])
    /\ loc' = [loc EXCEPT
                 !.output_parts = Append(@, [filename |-> PartFilename(loc.k),
                                             content |-> partOut[loc.k]]),
                 !.k = @ + 1]
    /\ audit' = [audit EXCEPT !.loaded = @ \cup
                   {[kind |-> "part", size |-> Min(1, getsize(partOut[loc.k]))]}]
    /\ UNCHANGED <<pipe, pc, stage, exit, nRuns, llm, red, grpOut, hist, storeVars>>

(* No file for the part: the chunk is joined and handed to run_llm. *)
PartCondense ==
    /\ pc = "part_loop"
    /\ loc.k <= Len(loc.chunks)
    /\ ~isfile(partOut[loc.k])
    /\ llm' = LlmCall(Join(loc.chunks[loc.k]), "part_ret")
    /\ loc' = [loc EXCEPT !.invoked = @ + 1]
    /\ pc' = "llm"
    /\ UNCHANGED <<pipe, stage, exit, nRuns, red, grpOut, hist, storeVars, audit>>

(* open(part_filepath, "w") creates the part's file. *)
PartOpen ==
    /\ pc = "part_ret"
    /\ audit' = [audit EXCEPT !.rewrote = @ \cup
                   (IF isfile(partOut[loc.k]) /\ getsize(partOut[loc.k]) > 0
                    THEN {"part"} ELSE {}),
                   !.made = Emptied(@, "part", loc.k, <<0, 0>>)]
    /\ partOut' = [partOut EXCEPT ![loc.k] = <<>>]
    /\ loc' = [loc EXCEPT !.wrote = @ \cup {PartFilename(loc.k)}]
    /\ pc' = "part_write"
    /\ GuardrailReturns
    /\ pipe' = guardrail_callback
    /\ UNCHANGED <<stage, exit, nRuns, llm, red, grpOut, hist, rawN, chOut,
                   arcOut, novelOut, manifest>>

(* f.write(part_content), close, output_parts.append(...) *)
PartWrite ==
    /\ pc = "part_write"
    /\ partOut' = [partOut EXCEPT ![loc.k] = llm.out]
    /\ loc' = [loc EXCEPT
                 !.output_parts = Append(@, [filename |-> PartFilename(loc.k),
                                             content |-> llm.out]),
                 !.k = @ + 1]
    /\ audit' = [audit EXCEPT !.made = @ \cup
                   {Made("part", loc.k, <<0, 0>>, llm.inp)}]
    /\ llm' = LlmIdle
    /\ pc' = "part_loop"
    /\ UNCHANGED <<pipe, stage, exit, nRuns, red, grpOut, hist, rawN, chOut, arcOut,
                   novelOut, manifest>>

(* The process dies while the part's file is open for writing. *)
CrashPartWrite ==
    /\ pc = "part_write"
    /\ \E part \in PartialWrites(llm.out) :
         partOut' = [partOut EXCEPT ![loc.k] = part]
    /\ pc' = "idle"
    /\ exit' = "crash"
    /\ llm' = LlmIdle
    /\ red' = RedIdle
    /\ hist' = HistIdle
    /\ loc' = LocIdle
    /\ pipe' = PipeKilled
    /\ UNCHANGED <<stage, nRuns, grpOut, rawN, chOut, arcOut, novelOut,
                   manifest, audit>>

(* All parts are there: write_manifest records them in chunk order. *)
NovelManifest ==
    /\ pc = "part_loop"
    /\ loc.k > Len(loc.chunks)
    /\ manifest' = write_manifest(loc.output_parts, "output_recursive_reduction")
    /\ pc' = "combined_open"
    /\ UNCHANGED <<pipe, stage, exit, nRuns, llm, red, grpOut, hist, rawN, chOut,
                   arcOut, partOut, novelOut, loc, audit>>

(* open(combined_path, "w") creates or truncates novel.condensed.txt. *)
NovelCombinedOpen ==
    /\ pc = "combined_open"
    /\ audit' = [audit EXCEPT !.rewrote = @ \cup
                   (IF isfile(novelOut) /\ getsize(novelOut) > 0
                    THEN {"novel"} ELSE {}),
                   !.made = Emptied(@, "novel", 0, <<0, 0>>)]
    /\ novelOut' = <<>>
    /\ loc' = [loc EXCEPT !.wrote = @ \cup {NovelFilename}]
    /\ pc' = "combined_write"
    /\ UNCHANGED <<pipe, stage, exit, nRuns, llm, red, grpOut, hist, rawN, chOut,
                   arcOut, partOut, manifest>>

(* f.write(combined_content), close; process_novel returns. *)
NovelCombinedWrite ==
    /\ pc = "combined_write"
    /\ novelOut' = Join([k \in DOMAIN loc.output_parts |->
                            loc.output_parts[k].content])
    /\ pc' = "idle"
    /\ exit' = "ok"
    /\ UNCHANGED <<pipe, stage, nRuns, llm, red, grpOut, hist, rawN, chOut, arcOut,
                   partOut, manifest, loc, audit>>

(* Within budget and novel.condensed.txt exists: it is read back, and      *)
(* write_manifest records the single part.                                 *)
NovelSingleLoad ==
    /\ pc = "nov_phase2"
    /\ ~needs_output_chunking
    /\ isfile(novelOut)
    /\ audit' = [audit EXCEPT !.loaded = @ \cup
                   {[kind |-> "novel", size |-> Min(1, getsize(novelOut))]}]
    /\ manifest' = write_manifest(
                      <<[filename |-> NovelFilename, content |-> novelOut]>>,
                      "single_pass")
    /\ pc' = "idle"
    /\ exit' = "ok"
    /\ UNCHANGED <<pipe, stage, nRuns, llm, red, grpOut, hist, rawN, chOut, arcOut,
                   partOut, novelOut, loc>>

(* Within budget and no novel.condensed.txt: the joined units are handed   *)
(* to run_llm.                                                             *)
NovelSingleCondense ==
    /\ pc = "nov_phase2"
    /\ ~needs_output_chunking
    /\ ~isfile(novelOut)
    /\ llm' = LlmCall(Join(loc.units_for_output), "single_ret")
    /\ loc' = [loc EXCEPT !.invoked = @ + 1]
    /\ pc' = "llm"
    /\ UNCHANGED <<pipe, stage, exit, nRuns, red, grpOut, hist, storeVars, audit>>

(* open(output_path, "w") creates novel.condensed.txt. *)
NovelSingleOpen ==
    /\ pc = "single_ret"
    /\ audit' = [audit EXCEPT !.rewrote = @ \cup
                   (IF isfile(novelOut) /\ getsize(novelOut) > 0
                    THEN {"novel"} ELSE {}),
                   !.made = Emptied(@, "novel", 0, <<0, 0>>)]
    /\ novelOut' = <<>>
    /\ loc' = [loc EXCEPT !.wrote = @ \cup {NovelFilename}]
    /\ pc' = "single_write"
    /\ GuardrailReturns
    /\ pipe' = guardrail_callback
    /\ UNCHANGED <<stage, exit, nRuns, llm, red, grpOut, hist, rawN, chOut,
                   arcOut, partOut, manifest>>

(* f.write(condensed_novel), close. *)
NovelSingleWrite ==
    /\ pc = "single_write"
    /\ novelOut' = llm.out
    /\ audit' = [audit EXCEPT !.made = @ \cup
                   {Made("novel", 0, <<0, 0>>, llm.inp)}]
    /\ pc' = "single_manifest"
    /\ UNCHANGED <<pipe, stage, exit, nRuns, llm, red, grpOut, hist, rawN, chOut,
                   arcOut, partOut, manifest, loc>>

(* write_manifest for the single part; process_novel returns. *)
NovelSingleManifest ==
    /\ pc = "single_manifest"
    /\ manifest' = write_manifest(
                      <<[filename |-> NovelFilename, content |-> llm.out]>>,
                      "single_pass")
    /\ llm' = LlmIdle
    /\ pc' = "idle"
    /\ exit' = "ok"
    /\ UNCHANGED <<pipe, stage, nRuns, red, grpOut, hist, rawN, chOut, arcOut,
                   partOut, novelOut, loc, audit>>

(* The process dies while novel.condensed.txt is open for writing. *)
CrashNovelWrite ==
    /\ pc \in {"single_write", "combined_write"}
    /\ LET text == IF pc = "single_write" THEN llm.out
                   ELSE Join([k \in DOMAIN loc.output_parts |->
                                 loc.output_parts[k].content])
       IN \E part \in PartialWrites(text) : novelOut' = part
    /\ pc' = "idle"
    /\ exit' = "crash"
    /\ llm' = LlmIdle
    /\ red' = RedIdle
    /\ hist' = HistIdle
    /\ loc' = LocIdle
    /\ pipe' = PipeKilled
    /\ UNCHANGED <<stage, nRuns, grpOut, rawN, chOut, arcOut, partOut,
                   manifest, audit>>

-----------------------------------------------------------------------------
(* The pipeline: the three stages, each started from its own entry point *)

(* A stage's process dies between two steps; its memory is lost, the       *)
(* files stay.                                                             *)
CrashStage ==
    /\ stage \in Stages
    /\ pc \in {"ch_loop", "ch_ret", "arc_loop", "arc_ret", "llm", "red_entry",
               "red_group", "red_group_ret", "red_base_ret", "nov_phase2",
               "part_loop", "part_ret", "combined_open", "single_ret",
               "single_manifest"}
    /\ pc' = "idle"
    /\ exit' = "crash"
    /\ llm' = LlmIdle
    /\ red' = RedIdle
    /\ hist' = HistIdle
    /\ loc' = LocIdle
    /\ pipe' = PipeKilled
    /\ UNCHANGED <<stage, nRuns, grpOut, storeVars, audit>>

(* The corpus: MaxRaw or fewer raw chapters and an empty store, or one     *)
(* chapter more than fills an arc, with the chapters already condensed by  *)
(* an earlier chapter run whose compressor returned each chapter as is.    *)
InitWith(p) ==
    /\ pc = "idle"
    /\ stage = "none"
    /\ exit = "none"
    /\ nRuns = 0
    /\ llm = LlmIdle
    /\ red = RedIdle
    /\ grpOut = NoGroupFiles
    /\ hist = HistIdle
    /\ loc = LocIdle
    /\ novelOut = NoFile
    /\ manifest = NoManifest
    /\ rawN \in (1..MaxRaw) \cup {CHAPTERS_PER_ARC + 1}
    /\ chOut = [i \in 1..rawN |-> IF rawN <= MaxRaw THEN NoFile ELSE <<i>>]
    /\ arcOut = [a \in 1..NumGroups(rawN, CHAPTERS_PER_ARC) |-> NoFile]
    /\ partOut = [a \in 1..NumGroups(rawN, CHAPTERS_PER_ARC) |-> NoFile]
    /\ audit = [AuditNew EXCEPT !.written =
                   IF rawN <= MaxRaw THEN {}
                   ELSE {[kind |-> "chapter", n |-> i] : i \in 1..rawN}]
    /\ pipe = p

(* The operator starts the stages from their own entry points. *)
Init == InitWith(PipeIdle("stages", "up"))

Next ==
    \/ ChapterSkip
    \/ ChapterStart
    \/ ChapterCondense
    \/ ChapterOpen
    \/ ChapterWrite
    \/ ChapterFinish
    \/ CrashChapterWrite
    \/ ArcNoInput
    \/ ArcSkip
    \/ ArcStart
    \/ ArcCondense
    \/ ArcOpen
    \/ ArcWrite
    \/ ArcFinish
    \/ CrashArcWrite
    \/ NovelNoInput
    \/ NovelReduce
    \/ NovelDirect
    \/ NovelReduced
    \/ NovelChunk
    \/ PartLoad
    \/ PartCondense
    \/ PartOpen
    \/ PartWrite
    \/ CrashPartWrite
    \/ NovelManifest
    \/ NovelCombinedOpen
    \/ NovelCombinedWrite
    \/ NovelSingleLoad
    \/ NovelSingleCondense
    \/ NovelSingleOpen
    \/ NovelSingleWrite
    \/ NovelSingleManifest
    \/ CrashNovelWrite
    \/ CrashStage
    \/ RedBase
    \/ RedSplit
    \/ RedGroupLoad
    \/ RedGroupCondense
    \/ RedGroupOpen
    \/ RedGroupWrite
    \/ RedRecurse
    \/ CrashGroupWrite
    \/ LlmReturn
    \/ LlmRetry
    \/ LlmExhausted

Spec == Init /\ [][Next]_vars

-----------------------------------------------------------------------------
(* run_pipeline: the three stages in order, skip flags, finally block *)

MaxPipeRuns == 2

(* _count_files(raw_dir, ".txt") *)
raw_count == rawN

(* _count_files(output_dir, ".condensed.txt") of the chapter store *)
condensed_count ==
    Cardinality({f \in ChapterDirListing : EndsWithCondensedTxt(f)})

(* _count_files(output_dir, ".condensed.txt") of the arc store *)
arc_count == Cardinality({f \in ArcDirListing : EndsWithCondensedTxt(f)})

validate_chapter_outputs ==
    raw_count # 0 /\ condensed_count # 0 /\ condensed_count = raw_count

(* Only the presence of one arc file is checked. *)
validate_arc_outputs == arc_count # 0

validate_novel_outputs == isfile(novelOut) /\ getsize(novelOut) # 0

Validates(s) ==
    CASE s = "chapter" -> validate_chapter_outputs
      [] s = "arc" -> validate_arc_outputs
      [] s = "novel" -> validate_novel_outputs

(* The block that follows a stage's block; the optional tier features    *)
(* after stage 3 are off by default and left out.                         *)
NextBlock(s) ==
    CASE s = "chapter" -> "arc"
      [] s = "arc" -> "novel"
      [] s = "novel" -> "finally"

(* run_pipeline is called in a fresh process with some skip flags. *)
PipelineStart ==
    /\ pipe.entry = "run_pipeline"
    /\ pipe.at = "none"
    /\ pc = "idle"
    /\ pipe.n < MaxPipeRuns
    /\ \E skip \in SUBSET Stages :
         pipe' = [pipe EXCEPT !.n = @ + 1, !.at = "chapter", !.skip = skip,
                              !.skipped = {}, !.ran = {}, !.err = NoErr,
                              !.fin = <<>>, !.out = NoErr,
                              !.calls = NoCalls]
    /\ stage' = "none"
    /\ exit' = "none"
    /\ llm' = LlmIdle
    /\ red' = RedIdle
    /\ hist' = HistIdle
    /\ loc' = LocIdle
    /\ UNCHANGED <<pc, nRuns, grpOut, storeVars, audit>>

(* What the store held of a stage's outputs when the stage was skipped. *)
SkipRecord(s) ==
    [stage |-> s,
     have |-> CASE s = "chapter" -> condensed_count
                [] s = "arc" -> arc_count
                [] s = "novel" -> IF isfile(novelOut) THEN 1 ELSE 0,
     expected |-> CASE s = "chapter" -> raw_count
                    [] s = "arc" -> NumGroups(condensed_count, CHAPTERS_PER_ARC)
                    [] s = "novel" -> 1]

(* The stage's flag is set and its validator accepts: the stage is        *)
(* skipped.                                                                *)
PipeSkip ==
    /\ pc = "idle"
    /\ pipe.at \in Stages \cap pipe.skip
    /\ Validates(pipe.at)
    /\ pipe' = [pipe EXCEPT !.at = NextBlock(pipe.at),
                            !.skipped = @ \cup {SkipRecord(pipe.at)}]
    /\ UNCHANGED <<pc, stage, exit, nRuns, llm, red, grpOut, hist, storeVars,
                   loc, audit>>

(* The validator rejects: ValueError("Cannot skip ... validation failed") *)
PipeSkipRefused ==
    /\ pc = "idle"
    /\ pipe.at \in Stages \cap pipe.skip
    /\ ~Validates(pipe.at)
    /\ pipe' = [pipe EXCEPT !.at = "finally",
                            !.err = [type |-> "ValueError", stage |-> pipe.at,
                                     from |-> "skip"]]
    /\ UNCHANGED <<pc, stage, exit, nRuns, llm, red, grpOut, hist, storeVars,
                   loc, audit>>

StageReturned_AnyExit == exit \in {"ok", "error"}

(* process_novel came to its end or to a return statement. *)
StageReturned == exit = "ok"

(* process_novel returned: run_pipeline goes on to the next block. *)
PipeStageReturned ==
    /\ pc = "idle"
    /\ pipe.at \in Stages
    /\ stage = pipe.at
    /\ StageReturned
    /\ pipe' = [pipe EXCEPT !.at = NextBlock(pipe.at), !.ran = @ \cup {stage}]
    /\ stage' = "none"
    /\ UNCHANGED <<pc, exit, nRuns, llm, red, grpOut, hist, storeVars, loc,
                   audit>>

(* process_novel raised: no except clause stands between the stage and   *)
(* the finally block.                                                     *)
StageRaised == exit = "error"

(* The exception leaves the try block. *)
PipeStageRaised ==
    /\ pc = "idle"
    /\ pipe.at \in Stages
    /\ stage = pipe.at
    /\ StageRaised
    /\ pipe' = [pipe EXCEPT !.at = "finally", !.ran = @ \cup {stage},
                  !.err = [type |-> IF llm.status = "raised"
                                    THEN "RuntimeError" ELSE "ValueError",
                           stage |-> stage, from |-> "stage"]]
    /\ UNCHANGED <<pc, stage, exit, nRuns, llm, red, grpOut, hist, storeVars,
                   loc, audit>>

(* The statements of the finally block, in order. *)
FinallySteps ==
    <<"print_run_summary", "print_usage_summary", "generate_and_save_report",
      "clear_run_metadata", "end_run">>

(* get_run_summary opens the database outside any try block. *)
print_run_summary(db) == IF db = "up" THEN "returned" ELSE "raised"

(* get_usage_summary does the same. *)
print_usage_summary(db) == IF db = "up" THEN "returned" ELSE "raised"

(* finalize_run_metadata, then generate_and_save_report, whose body is    *)
(* one try block with a handler that prints.                              *)
generate_and_save_report(db) == "returned"

StepOutcome(step, db) ==
    CASE step = "print_run_summary" -> print_run_summary(db)
      [] step = "print_usage_summary" -> print_usage_summary(db)
      [] step = "generate_and_save_report" -> generate_and_save_report(db)
      [] OTHER -> "returned"

NextFinallyStep == FinallySteps[Len(pipe.fin) + 1]

(* One statement of the finally block runs and returns. *)
PipeFinallyStep ==
    /\ pipe.at = "finally"
    /\ Len(pipe.fin) < Len(FinallySteps)
    /\ StepOutcome(NextFinallyStep, pipe.db) = "returned"
    /\ pipe' = [pipe EXCEPT !.fin = Append(@, NextFinallyStep)]
    /\ UNCHANGED <<pc, stage, exit, nRuns, llm, red, grpOut, hist, storeVars,
                   loc, audit>>

(* A statement of the finally block raises: the rest of the block is      *)
(* left out and this exception replaces the pending one.                  *)
PipeFinallyRaises ==
    /\ pipe.at = "finally"
    /\ Len(pipe.fin) < Len(FinallySteps)
    /\ StepOutcome(NextFinallyStep, pipe.db) = "raised"
    /\ pipe' = [pipe EXCEPT !.at = "none",
                  !.out = [type |-> "OperationalError", stage |-> "none",
                           from |-> NextFinallyStep]]
    /\ UNCHANGED <<pc, stage, exit, nRuns, llm, red, grpOut, hist, storeVars,
                   loc, audit>>

Returned == [type |-> "returned", stage |-> "none", from |-> "none"]

(* The finally block is through: the pending exception, if any, goes on   *)
(* to the caller.                                                          *)
PipeExit ==
    /\ pipe.at = "finally"
    /\ Len(pipe.fin) = Len(FinallySteps)
    /\ pipe' = [pipe EXCEPT !.at = "none",
                  !.out = IF pipe.err = NoErr THEN Returned ELSE pipe.err]
    /\ UNCHANGED <<pc, stage, exit, nRuns, llm, red, grpOut, hist, storeVars,
                   loc, audit>>

(* The operator runs the stages through run_pipeline only; the database   *)
(* of the sinks is reachable or not.  A stage that run_pipeline reaches   *)
(* always finds input files, so ArcNoInput and NovelNoInput have no part  *)
(* in these runs.                                                          *)
InitPipe == \E db \in DbStates : InitWith(PipeIdle("run_pipeline", db))

NextPipe ==
    \/ PipelineStart
    \/ PipeSkip
    \/ PipeSkipRefused
    \/ PipeStageReturned
    \/ PipeStageRaised
    \/ PipeFinallyStep
    \/ PipeFinallyRaises
    \/ PipeExit
    \/ ChapterSkip
    \/ ChapterStart
    \/ ChapterCondense
    \/ ChapterOpen
    \/ ChapterWrite
    \/ ChapterFinish
    \/ CrashChapterWrite
    \/ ArcSkip
    \/ ArcStart
    \/ ArcCondense
    \/ ArcOpen
    \/ ArcWrite
    \/ ArcFinish
    \/ CrashArcWrite
    \/ NovelReduce
    \/ NovelDirect
    \/ NovelReduced
    \/ NovelChunk
    \/ PartLoad
    \/ PartCondense
    \/ PartOpen
    \/ PartWrite
    \/ CrashPartWrite
    \/ NovelManifest
    \/ NovelCombinedOpen
    \/ NovelCombinedWrite
    \/ NovelSingleLoad
    \/ NovelSingleCondense
    \/ NovelSingleOpen
    \/ NovelSingleWrite
    \/ NovelSingleManifest
    \/ CrashNovelWrite
    \/ CrashStage
    \/ RedBase
    \/ RedSplit
    \/ RedGroupLoad
    \/ RedGroupCondense
    \/ RedGroupOpen
    \/ RedGroupWrite
    \/ RedRecurse
    \/ CrashGroupWrite
    \/ LlmReturn
    \/ LlmRetry
    \/ LlmExhausted

SpecPipe == InitPipe /\ [][NextPipe]_vars

-----------------------------------------------------------------------------
(* compute_arc_ranges called on its own, twice on the same arguments *)

MaxFiles == 24
MaxPerArc == 11

(* A listing of n condensed chapter files, in ascending or in descending  *)
(* order of their names.                                                   *)
FileList(n, order) ==
    [i \in 1..n |-> get_expected_output_filename(
                       RawName(IF order = "ascending" THEN i ELSE n + 1 - i))]

InitGroups ==
    /\ pc = "idle"
    /\ stage = "groups"
    /\ exit = "none"
    /\ nRuns = 0
    /\ llm = LlmIdle
    /\ red = RedIdle
    /\ grpOut = NoGroupFiles
    /\ hist = HistIdle
    /\ rawN = 0
    /\ chOut = <<>>
    /\ arcOut = <<>>
    /\ partOut = <<>>
    /\ novelOut = NoFile
    /\ manifest = NoManifest
    /\ audit = AuditNew
    /\ pipe = PipeIdle("stages", "up")
    /\ \E n \in 1..MaxFiles, chapters_per_arc \in 1..MaxPerArc,
          order \in {"ascending", "descending"} :
         loc = [files |-> FileList(n, order),
                chapters_per_arc |-> chapters_per_arc,
                arcs |-> <<>>, again |-> <<>>]

(* all_arcs = compute_arc_ranges(chapter_files, CHAPTERS_PER_ARC) *)
GroupFiles ==
    /\ stage = "groups"
    /\ pc = "idle"
    /\ loc' = [loc EXCEPT !.arcs =
                  compute_arc_ranges(loc.files, loc.chapters_per_arc)]
    /\ pc' = "grouped"
    /\ UNCHANGED <<stage, exit, nRuns, llm, red, grpOut, hist, storeVars,
                   audit, pipe>>

(* The same call once more, as a resumed run makes it. *)
GroupFilesAgain ==
    /\ stage = "groups"
    /\ pc = "grouped"
    /\ loc' = [loc EXCEPT !.again =
                  compute_arc_ranges(loc.files, loc.chapters_per_arc)]
    /\ pc' = "regrouped"
    /\ UNCHANGED <<stage, exit, nRuns, llm, red, grpOut, hist, storeVars,
                   audit, pipe>>

NextGroups ==
    \/ GroupFiles
    \/ GroupFilesAgain

SpecGroups == InitGroups /\ [][NextGroups]_vars

-----------------------------------------------------------------------------
(* The concrete scenario: run_pipeline on a fresh corpus in the clean     *)
(* environment                                                             *)

ScenarioChapters == 23

InitScenario ==
    /\ pc = "idle"
    /\ stage = "none"
    /\ exit = "none"
    /\ nRuns = 0
    /\ llm = LlmIdle
    /\ red = RedIdle
    /\ grpOut = NoGroupFiles
    /\ hist = HistIdle
    /\ loc = LocIdle
    /\ novelOut = NoFile
    /\ manifest = NoManifest
    /\ rawN = ScenarioChapters
    /\ chOut = [i \in 1..rawN |-> NoFile]
    /\ arcOut = [a \in 1..NumGroups(rawN, CHAPTERS_PER_ARC) |-> NoFile]
    /\ partOut = [a \in 1..NumGroups(rawN, CHAPTERS_PER_ARC) |-> NoFile]
    /\ audit = AuditNew
    /\ pipe = [PipeIdle("run_pipeline", "up") EXCEPT !.env = "clean"]

(* No kill, no failed attempt: the steps that are left.  The merged arcs  *)
(* exceed the input limit and the reduced text is within the output       *)
(* budget, so the direct and the multi-part paths are not taken.           *)
NextScenario ==
    \/ PipelineStart
    \/ PipeSkip
    \/ PipeSkipRefused
    \/ PipeStageReturned
    \/ PipeFinallyStep
    \/ PipeExit
    \/ ChapterSkip
    \/ ChapterStart
    \/ ChapterCondense
    \/ ChapterOpen
    \/ ChapterWrite
    \/ ChapterFinish
    \/ ArcSkip
    \/ ArcStart
    \/ ArcCondense
    \/ ArcOpen
    \/ ArcWrite
    \/ ArcFinish
    \/ NovelReduce
    \/ NovelReduced
    \/ NovelSingleLoad
    \/ NovelSingleCondense
    \/ NovelSingleOpen
    \/ NovelSingleWrite
    \/ NovelSingleManifest
    \/ RedBase
    \/ RedSplit
    \/ RedGroupLoad
    \/ RedGroupCondense
    \/ RedGroupOpen
    \/ RedGroupWrite
    \/ RedRecurse
    \/ LlmReturn

SpecScenario == InitScenario /\ [][NextScenario]_vars

-----------------------------------------------------------------------------
(* split_units_for_output_budget called on its own *)

MaxSplitUnits == 4
MaxSplitLen == 3
MaxSplitTok == 3

(* Lists of up to MaxSplitUnits units of 0..MaxSplitLen tokens each. *)
SplitUnitLists ==
    UNION {{[k \in 1..n |-> UnitOf(k, lens[k])] :
               lens \in [1..n -> 0..MaxSplitLen]} : n \in 0..MaxSplitUnits}

InitSplit ==
    /\ pc = "idle"
    /\ stage = "split"
    /\ exit = "none"
    /\ nRuns = 0
    /\ llm = LlmIdle
    /\ red = RedIdle
    /\ grpOut = NoGroupFiles
    /\ hist = HistIdle
    /\ rawN = 0
    /\ chOut = <<>>
    /\ arcOut = <<>>
    /\ partOut = <<>>
    /\ novelOut = NoFile
    /\ manifest = NoManifest
    /\ audit = AuditNew
    /\ pipe = PipeIdle("stages", "up")
    /\ \E units \in SplitUnitLists, max_input_tokens \in 1..MaxSplitTok :
         loc = [units |-> units, max_input_tokens |-> max_input_tokens,
                chunks |-> <<>>]

(* chunks = split_units_for_output_budget(units, max_input_tokens) *)
SplitUnits ==
    /\ stage = "split"
    /\ pc = "idle"
    /\ loc' = [loc EXCEPT !.chunks =
                  split_units_for_output_budget(loc.units,
                                                loc.max_input_tokens)]
    /\ pc' = "split"
    /\ UNCHANGED <<stage, exit, nRuns, llm, red, grpOut, hist, storeVars,
                   audit, pipe>>

NextSplit == SplitUnits

SpecSplit == InitSplit /\ [][NextSplit]_vars

-----------------------------------------------------------------------------
(* Two launches of the chapter stage on one corpus.  In this specification *)
(* pc, exit, llm and loc hold one value per launched process; the store is *)
(* shared.                                                                 *)

Launches == {1, 2}

(* Locals of one chapter_condensation.process_novel. *)
LaunchLoc(det) == [missing |-> det.missing, k |-> 1, wrote |-> {}]

(* detect_missing_chapters, and done_count == total_chapters: return. *)
LaunchSkip(p) ==
    /\ pc[p] = "idle"
    /\ Len(detect_missing_chapters.done) = Len(detect_missing_chapters.all)
    /\ pc' = [pc EXCEPT ![p] = "returned"]
    /\ exit' = [exit EXCEPT ![p] = "ok"]
    /\ loc' = [loc EXCEPT ![p] = LaunchLoc(detect_missing_chapters)]
    /\ nRuns' = nRuns + 1
    /\ UNCHANGED <<stage, llm, red, grpOut, hist, storeVars, audit, pipe>>

(* detect_missing_chapters, and the loop over missing_chapters begins. *)
LaunchStart(p) ==
    /\ pc[p] = "idle"
    /\ Len(detect_missing_chapters.done) # Len(detect_missing_chapters.all)
    /\ pc' = [pc EXCEPT ![p] = "ch_loop"]
    /\ loc' = [loc EXCEPT ![p] = LaunchLoc(detect_missing_chapters)]
    /\ nRuns' = nRuns + 1
    /\ UNCHANGED <<stage, exit, llm, red, grpOut, hist, storeVars, audit, pipe>>

(* The raw chapter is read and run_llm returns the provider's text. *)
LaunchCondense(p) ==
    /\ pc[p] = "ch_loop"
    /\ loc[p].k <= Len(loc[p].missing)
    /\ LET filename == loc[p].missing[loc[p].k]
       IN \E t \in ProviderTexts(<<filename.stem>>) :
             llm' = [llm EXCEPT ![p] = [inp |-> <<filename.stem>>, out |-> t]]
    /\ pc' = [pc EXCEPT ![p] = "ch_ret"]
    /\ UNCHANGED <<stage, exit, nRuns, red, grpOut, hist, storeVars, loc,
                   audit, pipe>>

(* run_llm raises after its last attempt: the process ends. *)
LaunchRaises(p) ==
    /\ pc[p] = "ch_loop"
    /\ loc[p].k <= Len(loc[p].missing)
    /\ pc' = [pc EXCEPT ![p] = "returned"]
    /\ exit' = [exit EXCEPT ![p] = "error"]
    /\ UNCHANGED <<stage, nRuns, llm, red, grpOut, hist, storeVars, loc,
                   audit, pipe>>

(* open(output_path, "w") by process p: the path is created, or truncated *)
(* if it exists.                                                           *)
LaunchOpen(p) ==
    /\ pc[p] = "ch_ret"
    /\ LET i == get_expected_output_filename(loc[p].missing[loc[p].k]).stem
       IN /\ audit' = [audit EXCEPT
                !.rewrote = @ \cup
                    (IF isfile(chOut[i]) /\ getsize(chOut[i]) > 0
                     THEN {[n |-> i, by |-> p]} ELSE {}),
                !.written = @ \cup {[n |-> i, by |-> p]}]
          /\ chOut' = [chOut EXCEPT ![i] = <<>>]
          /\ loc' = [loc EXCEPT ![p].wrote = @ \cup {i}]
    /\ pc' = [pc EXCEPT ![p] = "ch_write"]
    /\ UNCHANGED <<stage, exit, nRuns, llm, red, grpOut, hist, rawN, arcOut,
                   partOut, novelOut, manifest, pipe>>

(* f.write(condensed_text) and close; the loop moves on. *)
LaunchWrite(p) ==
    /\ pc[p] = "ch_write"
    /\ LET i == get_expected_output_filename(loc[p].missing[loc[p].k]).stem
       IN chOut' = [chOut EXCEPT ![i] = llm[p].out]
    /\ loc' = [loc EXCEPT ![p].k = @ + 1]
    /\ pc' = [pc EXCEPT ![p] = "ch_loop"]
    /\ UNCHANGED <<stage, exit, nRuns, llm, red, grpOut, hist, rawN, arcOut,
                   partOut, novelOut, manifest, audit, pipe>>

(* The loop is over: process_novel returns. *)
LaunchFinish(p) ==
    /\ pc[p] = "ch_loop"
    /\ loc[p].k > Len(loc[p].missing)
    /\ pc' = [pc EXCEPT ![p] = "returned"]
    /\ exit' = [exit EXCEPT ![p] = "ok"]
    /\ UNCHANGED <<stage, nRuns, llm, red, grpOut, hist, storeVars, loc,
                   audit, pipe>>

(* A corpus of up to MaxRaw + 1 raw chapters, of which an earlier run has  *)
(* condensed the first `have`.                                             *)
InitLaunches ==
    /\ pc = [p \in Launches |-> "idle"]
    /\ stage = "chapter"
    /\ exit = [p \in Launches |-> "none"]
    /\ nRuns = 0
    /\ llm = [p \in Launches |-> [inp |-> NoneText, out |-> NoneText]]
    /\ red = RedIdle
    /\ grpOut = NoGroupFiles
    /\ hist = HistIdle
    /\ loc = [p \in Launches |-> LaunchLoc([missing |-> <<>>])]
    /\ novelOut = NoFile
    /\ manifest = NoManifest
    /\ rawN \in 1..(MaxRaw + 1)
    /\ \E have \in 0..rawN :
          chOut = [i \in 1..rawN |-> IF i <= have THEN <<i>> ELSE NoFile]
    /\ arcOut = <<>>
    /\ partOut = <<>>
    /\ audit = AuditNew
    /\ pipe = PipeIdle("stages", "up")

NextLaunches ==
    \E p \in Launches :
       \/ LaunchSkip(p)
       \/ LaunchStart(p)
       \/ LaunchCondense(p)
       \/ LaunchRaises(p)
       \/ LaunchOpen(p)
       \/ LaunchWrite(p)
       \/ LaunchFinish(p)

SpecLaunches == InitLaunches /\ [][NextLaunches]_vars

-----------------------------------------------------------------------------
(* Resume detection on an arbitrary store: detect_missing_chapters and     *)
(* detect_missing_arcs called on directories in any state, with output     *)
(* files that belong to no expected unit among them.                       *)

MaxScanRaw == 3
MaxScanArcs == 3

(* No scan result yet. *)
NoScan == [status |-> "none", all |-> <<>>, done |-> <<>>, missing |-> <<>>]

ScanResult(det) ==
    [status |-> "returned", all |-> det.all, done |-> det.done,
     missing |-> det.missing]

(* if not all_chapters: raise ValueError (also when the directory is      *)
(* missing)                                                                *)
ScanRaised == [NoScan EXCEPT !.status = "ValueError"]

(* The states of one output file: absent, zero bytes, or holding text. *)
FileStates(text) == {NoFile, <<>>, text}

(* detect_missing_chapters(novel_name) returns. *)
ScanChapters ==
    /\ loc.ch.status = "none"
    /\ rawN # 0
    /\ loc' = [loc EXCEPT !.ch = ScanResult(detect_missing_chapters)]
    /\ nRuns' = nRuns + 1
    /\ UNCHANGED <<pc, stage, exit, llm, red, grpOut, hist, storeVars, audit,
                   pipe>>

(* detect_missing_chapters(novel_name) finds no raw chapter. *)
ScanChaptersRaises ==
    /\ loc.ch.status = "none"
    /\ rawN = 0
    /\ loc' = [loc EXCEPT !.ch = ScanRaised]
    /\ nRuns' = nRuns + 1
    /\ UNCHANGED <<pc, stage, exit, llm, red, grpOut, hist, storeVars, audit,
                   pipe>>

(* detect_missing_arcs(novel_name) returns. *)
ScanArcs ==
    /\ loc.arc.status = "none"
    /\ chapter_files # <<>>
    /\ loc' = [loc EXCEPT !.arc = ScanResult(detect_missing_arcs)]
    /\ nRuns' = nRuns + 1
    /\ UNCHANGED <<pc, stage, exit, llm, red, grpOut, hist, storeVars, audit,
                   pipe>>

(* detect_missing_arcs(novel_name) finds no condensed chapter. *)
ScanArcsRaises ==
    /\ loc.arc.status = "none"
    /\ chapter_files = <<>>
    /\ loc' = [loc EXCEPT !.arc = ScanRaised]
    /\ nRuns' = nRuns + 1
    /\ UNCHANGED <<pc, stage, exit, llm, red, grpOut, hist, storeVars, audit,
                   pipe>>

(* A small corpus with every combination of chapter outputs, one of them   *)
(* (index rawN + 1) without a raw chapter; or a corpus of more than one    *)
(* arc whose chapters are condensed but for one.  The arc directory holds  *)
(* any combination of the first MaxScanArcs arc files.                     *)
InitScan ==
    /\ pc = "idle"
    /\ stage = "scan"
    /\ exit = "none"
    /\ nRuns = 0
    /\ llm = LlmIdle
    /\ red = RedIdle
    /\ grpOut = NoGroupFiles
    /\ hist = HistIdle
    /\ novelOut = NoFile
    /\ manifest = NoManifest
    /\ partOut = <<>>
    /\ audit = AuditNew
    /\ pipe = PipeIdle("stages", "up")
    /\ \/ /\ rawN \in 0..MaxScanRaw
          /\ \E files \in [1..(rawN + 1) -> {"absent", "empty", "text"}] :
                chOut = [i \in 1..(rawN + 1) |->
                           CASE files[i] = "absent" -> NoFile
                             [] files[i] = "empty" -> <<>>
                             [] files[i] = "text" -> <<i>>]
       \/ /\ rawN \in {CHAPTERS_PER_ARC + 1, 2 * CHAPTERS_PER_ARC + 1}
          /\ \E hole \in 1..rawN :
                \E f \in FileStates(<<hole>>) :
                   chOut = [i \in 1..rawN |-> IF i = hole THEN f ELSE <<i>>]
    /\ arcOut \in [1..MaxScanArcs -> FileStates(<<1, SEP, 2>>)]
    /\ loc = [ch |-> NoScan, arc |-> NoScan, snap |-> <<rawN, chOut, arcOut>>]

NextScan ==
    \/ ScanChapters
    \/ ScanChaptersRaises
    \/ ScanArcs
    \/ ScanArcsRaises

SpecScan == InitScan /\ [][NextScan]_vars

-----------------------------------------------------------------------------
(* tag_resolver.TagRuleEngine.evaluate_tag.  Scores are counted in units    *)
(* of 0.00001, so that round(x, 4) has a digit to round.                   *)

ScoreUnit == 100000

MaxBoosts == 2
MaxPenalties == 1

(* A condition of a rule: its type and its value.  A value that is one    *)
(* string in TAG_RULES is carried as a list of one entry.                  *)
Cond(type, value) == [type |-> type, value |-> value]

(* The evidence the engine was built from: keywords with their             *)
(* narrative_spread, categories found, resolved genres.                    *)
Evidences ==
    [keywords : SUBSET {"k1", "k2"}, spread : {3}, categories : SUBSET {"c1"},
     genres : SUBSET {"g1"}]

(* _check_condition: a list value of keyword_present / category_present is *)
(* met by any of its entries; an unknown condition type is never met.      *)
check_condition(ev, c) ==
    CASE c.type = "keyword_present" ->
            \E j \in DOMAIN c.value : c.value[j] \in ev.keywords
      [] c.type = "category_present" ->
            \E j \in DOMAIN c.value : c.value[j] \in ev.categories
      [] c.type = "keyword_spread" ->
            c.value[1] \in ev.keywords /\ ev.spread >= c.value[2]
      [] c.type = "genre_present" -> c.value[1] \in ev.genres
      [] OTHER -> FALSE

(* for condition_type, condition_value, score in items:                    *)
(*     if self._check_condition(...): total += score                       *)
RECURSIVE TotalApplied(_, _)
TotalApplied(ev, items) ==
    IF items = <<>> THEN 0
    ELSE (IF check_condition(ev, Head(items).cond) THEN Head(items).score ELSE 0)
            + TotalApplied(ev, Tail(items))

Clamp_UpperOnly(confidence) ==
    IF confidence > ScoreUnit THEN ScoreUnit ELSE confidence

(* max(0.0, min(1.0, confidence)) *)
Clamp(confidence) ==
    IF confidence > ScoreUnit THEN ScoreUnit
    ELSE IF confidence < 0 THEN 0 ELSE confidence

(* round(x, 4) of a non-negative x: to the nearest multiple of 0.0001,     *)
(* a tie going to the even one.                                            *)
Round4(x) ==
    LET q == x \div 10
        r == x % 10
    IN IF r < 5 \/ (r = 5 /\ q % 2 = 0) THEN q * 10 ELSE (q + 1) * 10

evaluate_tag(ev, rule) ==
    LET required_met ==
            \A j \in DOMAIN rule.required : check_condition(ev, rule.required[j])
        total_boosts == TotalApplied(ev, rule.boosts)
        total_penalties == TotalApplied(ev, rule.penalties)
    IN IF ~required_met
       THEN [confidence |-> 0, required_met |-> FALSE,
             base_score |-> rule.base_score,
             boosts_applied |-> 0, penalties_applied |-> 0]
       ELSE [confidence |->
                Round4(Clamp(rule.base_score + total_boosts - total_penalties)),
             required_met |-> TRUE,
             base_score |-> rule.base_score,
             boosts_applied |-> Round4(total_boosts),
             penalties_applied |-> Round4(total_penalties)]

(* Rules in the shape of TAG_RULES: a required dict (one condition per     *)
(* type), boosts and penalties with scores that are multiples of 0.05,     *)
(* and a base score.                                                       *)
RequiredDicts ==
    {<<>>,
     <<Cond("keyword_present", <<"k1">>)>>,
     <<Cond("keyword_present", <<"k1", "k2">>)>>,
     <<Cond("category_present", <<"c1">>)>>,
     <<Cond("keyword_present", <<"k2">>), Cond("genre_present", <<"g1">>)>>,
     <<Cond("keyword_present", <<"k1">>), Cond("not_a_condition", <<"k1">>)>>}

BoostItems ==
    [cond : {Cond("keyword_spread", <<"k1", 3>>), Cond("genre_present", <<"g1">>)},
     score : {10000, 70000}]

PenaltyItems ==
    [cond : {Cond("keyword_present", <<"k2">>), Cond("category_present", <<"c1">>)},
     score : {30000, 70000}]

SeqsUpTo(S, n) == UNION {[1..m -> S] : m \in 0..n}

Rules ==
    [required : RequiredDicts, boosts : SeqsUpTo(BoostItems, MaxBoosts),
     penalties : SeqsUpTo(PenaltyItems, MaxPenalties),
     base_score : {20000, 30000, 50000}]

NoTagResult ==
    [confidence |-> -1, required_met |-> FALSE, base_score |-> 0,
     boosts_applied |-> 0, penalties_applied |-> 0]

(* result = engine.evaluate_tag(tag_id, rule) *)
EvaluateTag ==
    /\ stage = "tags"
    /\ pc = "idle"
    /\ loc.result = NoTagResult
    /\ loc' = [loc EXCEPT !.result = evaluate_tag(loc.ev, loc.rule)]
    /\ nRuns' = nRuns + 1
    /\ UNCHANGED <<pc, stage, exit, llm, red, grpOut, hist, storeVars, audit,
                   pipe>>

InitTags ==
    /\ pc = "idle"
    /\ stage = "tags"
    /\ exit = "none"
    /\ nRuns = 0
    /\ llm = LlmIdle
    /\ red = RedIdle
    /\ grpOut = NoGroupFiles
    /\ hist = HistIdle
    /\ rawN = 0
    /\ chOut = <<>>
    /\ arcOut = <<>>
    /\ partOut = <<>>
    /\ novelOut = NoFile
    /\ manifest = NoManifest
    /\ audit = AuditNew
    /\ pipe = PipeIdle("stages", "up")
    /\ \E ev \in Evidences, rule \in Rules :
          loc = [ev |-> ev, rule |-> rule, result |-> NoTagResult]

NextTags == EvaluateTag

SpecTags == InitTags /\ [][NextTags]_vars

-----------------------------------------------------------------------------
(* Properties of reduce_until_fit, checked under SpecReduce *)

Contains(text, sym) == \E j \in 1..Len(text) : text[j] = sym

Max0(x) == IF x > 0 THEN x ELSE 0

RECURSIVE CeilLogFrom(_, _, _, _)
CeilLogFrom(g, n, k, pow) ==
    IF pow >= n THEN k ELSE CeilLogFrom(g, n, k + 1, pow * g)

(* the least k with g^k >= n *)
CeilLog(g, n) == CeilLogFrom(g, n, 0, 1)

NoDiskLoad == \A k \in DOMAIN hist.res : hist.res[k].from = "llm"

(* C1: every text handed to condense_fn by reduce_until_fit has an         *)
(* estimate <= max_tokens, unless it is one original unit that alone       *)
(* exceeds max_tokens.                                                     *)
C1_BudgetRespected ==
    \A k \in DOMAIN hist.sent :
        \/ estimate_tokens(hist.sent[k].text) <= loc.max_tokens
        \/ \E u \in DOMAIN hist.orig : hist.sent[k].text = hist.orig[u]

ExpectedGroupText(units, j, g) ==
    Join(SubSeq(units, (j - 1) * g + 1, Min(j * g, Len(units))))

(* C6: the text sent for group j of a layer is the join of that layer's    *)
(* units (j-1)g+1 .. min(jg, n) in order, the base-case text is the join   *)
(* of the whole layer, the next layer lists the group results in ascending *)
(* group index, and an echoing compressor under a limit that is not        *)
(* exceeded returns the input units joined in input order.                 *)
C6_OrderPreserved ==
    /\ \A k \in DOMAIN hist.sent :
         LET s == hist.sent[k]
             units == hist.layers[s.layer + 1]
         IN IF s.group = 0
            THEN s.text = Join(units)
            ELSE s.text = ExpectedGroupText(units, s.group, loc.units_per_group)
    /\ \A k \in DOMAIN hist.res :
         hist.res[k].from = "llm" =>
            \E m \in DOMAIN hist.got :
               /\ hist.sent[m].layer = hist.res[k].layer
               /\ hist.sent[m].group = hist.res[k].group
               /\ hist.got[m] = hist.res[k].text
    /\ \A L \in 2..Len(hist.layers) :
         /\ Len(hist.layers[L]) * loc.units_per_group >= Len(hist.layers[L - 1])
         /\ (Len(hist.layers[L]) - 1) * loc.units_per_group < Len(hist.layers[L - 1])
         /\ \A j \in 1..Len(hist.layers[L]) :
               \E k \in DOMAIN hist.res :
                  /\ hist.res[k].layer = L - 2
                  /\ hist.res[k].group = j
                  /\ hist.res[k].text = hist.layers[L][j]
    /\ \A j \in 1..Len(red.condensed_groups) :
         \E k \in DOMAIN hist.res :
            /\ hist.res[k].layer = red.layer
            /\ hist.res[k].group = j
            /\ hist.res[k].text = red.condensed_groups[j]
    /\ (stage = "reduce" /\ exit = "ok" /\ hist.allEcho /\ Len(hist.layers) = 1)
          => red.result = Join(hist.orig)

C6_Witness ==
    /\ stage = "reduce"
    /\ exit = "ok"
    /\ Len(hist.layers) >= 2
    /\ Len(hist.layers[1]) = 3
    /\ Len(hist.layers[2]) = 2
    /\ hist.layers[2][1] # hist.layers[2][2]

(* C7: an original unit whose own estimate exceeds max_tokens is sent to   *)
(* the compressor alone, never inside a group text with its neighbours.    *)
C7_OversizedSentAlone ==
    \A u \in DOMAIN hist.orig :
        estimate_tokens(hist.orig[u]) > loc.max_tokens =>
            \A k \in DOMAIN hist.sent :
                (hist.sent[k].layer = 0 /\ Contains(hist.sent[k].text, u))
                    => hist.sent[k].text = hist.orig[u]

(* What a direct reduce_until_fit call on an empty list leaves behind:    *)
(* no provider call, no sink call, no group file.                          *)
EmptyCallUntouched ==
    /\ pc \in {"idle", "red_entry"}
    /\ exit # "ok"
    /\ llm = LlmIdle
    /\ hist.sent = <<>>
    /\ hist.got = <<>>
    /\ pipe.sinks = {}
    /\ grpOut = NoGroupFiles
    /\ audit = AuditNew
    /\ red.result = NoneText

(* C16 as stated: reduce_until_fit called with an empty list of units     *)
(* fails with EmptyInputError before any compressor call, guardrail       *)
(* callback or file write.                                                 *)
C16_FailsWithEmptyInputError ==
    stage = "reduce" /\ loc.units = <<>> =>
        /\ EmptyCallUntouched
        /\ exit = "error" => red.raised = "EmptyInputError"

(* C16, amended: reduce_until_fit called with an empty list of units      *)
(* fails with ValueError before any compressor call, guardrail callback   *)
(* or file write.                                                          *)
C16_FailsWithValueError ==
    stage = "reduce" /\ loc.units = <<>> =>
        /\ EmptyCallUntouched
        /\ exit = "error" => red.raised = "ValueError"
        /\ red.raised \in {"none", "ValueError"}

(* The call on an empty list has failed. *)
C16_Witness ==
    /\ stage = "reduce"
    /\ loc.units = <<>>
    /\ nRuns = 1
    /\ pc = "idle"
    /\ exit = "error"
    /\ red.raised = "ValueError"

-----------------------------------------------------------------------------
(* Properties of the stages, checked under Spec *)

StageRunning == stage \in {"chapter", "arc"} /\ loc # LocIdle

(* The expected units of the running chapter or arc stage, by index. *)
ExpectedUnits ==
    IF stage = "chapter" THEN {loc.all[k].stem : k \in DOMAIN loc.all}
    ELSE {loc.all[k].arc_index : k \in DOMAIN loc.all}

DoneUnits ==
    IF stage = "chapter" THEN {loc.done[k].stem : k \in DOMAIN loc.done}
    ELSE Range(loc.done)

MissingUnits ==
    IF stage = "chapter" THEN {loc.missing[k].stem : k \in DOMAIN loc.missing}
    ELSE Range(loc.missing)

StageFiles == IF stage = "chapter" THEN chOut ELSE arcOut

NonEmptyFile(f) == isfile(f) /\ getsize(f) > 0

(* C2: when a chapter or arc run that was interrupted after persisting     *)
(* units 1..k is run again, the compressor is invoked exactly for units    *)
(* k+1..N and the files of units 1..k keep their content.                  *)
C2_ResumeFromK ==
    (/\ StageRunning
     /\ loc.prevStage = stage
     /\ loc.prevExit \in {"crash", "error"}
     /\ loc.snapWritten = 1..Cardinality(loc.snapWritten))
        => /\ \A u \in loc.snapWritten :
                u \notin loc.invoked /\ StageFiles[u] = loc.snap[u]
           /\ loc.invoked \subseteq ExpectedUnits \ loc.snapWritten
           /\ exit = "ok" => loc.invoked = ExpectedUnits \ loc.snapWritten

(* C3: a chapter run that follows a chapter run which returned normally    *)
(* invokes the compressor for no chapter, writes no file and leaves every  *)
(* condensed chapter as it was.                                            *)
C3_SecondRunNoop ==
    (/\ stage = "chapter"
     /\ loc # LocIdle
     /\ loc.prevStage = "chapter"
     /\ loc.prevExit = "ok")
        => /\ loc.invoked = {}
           /\ loc.wrote = {}
           /\ chOut = loc.snap

(* C5: no chapter, arc, group, part or final novel file that holds         *)
(* non-empty content is ever opened for writing again.                     *)
C5_WriteOnce == audit.rewrote = {}

(* C8: the chapter and arc resume scans put an expected unit in done iff   *)
(* its output file exists with size > 0 and in missing otherwise; a done   *)
(* unit is neither sent to the compressor nor written, and a run that      *)
(* returns normally has re-processed every missing unit, the zero-byte     *)
(* ones included.                                                          *)
C8_DoneIffNonEmpty ==
    StageRunning =>
        \A u \in ExpectedUnits :
            /\ u \in DoneUnits <=> NonEmptyFile(loc.snap[u])
            /\ u \in MissingUnits <=> ~NonEmptyFile(loc.snap[u])
            /\ u \in DoneUnits =>
                  /\ u \notin loc.invoked
                  /\ u \notin loc.wrote
                  /\ StageFiles[u] = loc.snap[u]
            /\ u \in loc.invoked => u \in MissingUnits
            /\ (exit = "ok" /\ u \in MissingUnits) =>
                  u \in loc.invoked /\ u \in loc.wrote

C8_Witness ==
    /\ StageRunning
    /\ exit = "ok"
    /\ \E u, v \in ExpectedUnits :
          /\ loc.snap[u] = <<>>
          /\ u \in loc.invoked
          /\ NonEmptyFile(loc.snap[v])
          /\ v \notin loc.invoked

(* C9: the novel stage takes a group file, a part file or                  *)
(* novel.condensed.txt from disk in place of a compressor call only when   *)
(* the file is non-empty.                                                  *)
C9_ReuseOnlyNonEmpty == \A l \in audit.loaded : l.size > 0

(* C10: one run_llm invocation calls the provider at most MAX_LLM_RETRIES  *)
(* times; it returns at the first attempt that yields a text, and that     *)
(* text is not None; while attempts fail and fewer than MAX_LLM_RETRIES    *)
(* were made it stays in the loop; it raises only after MAX_LLM_RETRIES    *)
(* failed attempts, and the error ends the run.                            *)
C10_BoundedRetry ==
    /\ llm.calls <= MAX_LLM_RETRIES
    /\ llm.status = "returned" =>
          /\ llm.out # NoneText
          /\ llm.out \in ProviderTexts(llm.inp)
          /\ llm.calls = llm.fails + 1
    /\ llm.status = "running" =>
          /\ pc = "llm"
          /\ llm.calls = llm.fails
          /\ llm.attempt = llm.fails + 1
          /\ llm.fails < MAX_LLM_RETRIES
    /\ llm.status = "raised" =>
          /\ llm.fails = MAX_LLM_RETRIES
          /\ llm.calls = MAX_LLM_RETRIES
          /\ llm.out = NoneText
          /\ pc = "idle"
          /\ exit = "error"
    /\ pc \in {"ch_ret", "arc_ret", "part_ret", "single_ret", "red_group_ret",
               "red_base_ret"} => llm.status = "returned"

C10_Witness ==
    /\ llm.status = "returned"
    /\ llm.fails = MAX_LLM_RETRIES - 1
    /\ stage \in Stages

-----------------------------------------------------------------------------
(* Properties of run_pipeline, checked under SpecPipe *)

(* The index of the unit the chapter or arc loop is at. *)
UnitAt(j) == IF stage = "chapter" THEN loc.missing[j].stem ELSE loc.missing[j]

(* run_llm gave up on a unit and nothing was started since. *)
UnitFailed == llm.status = "raised"

C11_State ==
    UnitFailed =>
        /\ pc = "idle"
        /\ exit = "error"
        /\ pipe.at \in {stage, "finally", "none"}
        /\ pipe.at = "finally" =>
              pipe.err = [type |-> "RuntimeError", stage |-> stage,
                          from |-> "stage"]
        /\ pipe.out # Returned
        /\ \A s \in pipe.ran :
              s = stage \/ (s = "chapter" /\ stage \in {"arc", "novel"})
                        \/ (s = "arc" /\ stage = "novel")
        /\ stage \in {"chapter", "arc"} =>
              /\ loc.k \in 1..Len(loc.missing)
              /\ UnitAt(loc.k) \notin loc.wrote
              /\ StageFiles[UnitAt(loc.k)] = loc.snap[UnitAt(loc.k)]
              /\ loc.invoked = {UnitAt(j) : j \in 1..loc.k}
              /\ loc.wrote = {UnitAt(j) : j \in 1..(loc.k - 1)}

C11_Step ==
    UnitFailed => /\ nRuns' = nRuns
                  /\ storeVars' = storeVars
                  /\ grpOut' = grpOut

(* C11: once the compressor has failed for a unit after the last retry,   *)
(* the stage has ended with the error, the unit's file is as the run      *)
(* found it, no later unit of the stage was or is processed, no file      *)
(* changes any more, and run_pipeline, which ends with an exception,      *)
(* starts no further stage.                                                *)
C11_FailedUnitStops == []C11_State /\ [][C11_Step]_vars

(* The first of two missing chapters failed, and run_pipeline delivered   *)
(* the stage's error with two stages still ahead.                          *)
C11_Witness ==
    /\ UnitFailed
    /\ stage = "chapter"
    /\ loc.k = 1
    /\ Len(loc.missing) = 2
    /\ pipe.out.type = "RuntimeError"
    /\ pipe.ran = {"chapter"}

(* C12: a stage is skipped only when the number of its persisted outputs  *)
(* equals the number expected from the upstream stage; a refused skip     *)
(* leaves run_pipeline with ValueError pending, no stage called after it. *)
C12_SkipNeedsComplete ==
    /\ \A r \in pipe.skipped : r.have = r.expected
    /\ pipe.err.from = "skip" =>
          /\ pipe.at \in {"finally", "none"}
          /\ pipe.err.type = "ValueError"
          /\ pipe.err.stage \notin pipe.ran
          /\ pipe.err.stage = "chapter" => pipe.ran = {}
          /\ pipe.err.stage = "arc" => pipe.ran \subseteq {"chapter"}

(* C13: no sink call ever leaves its sink with an exception, whatever the *)
(* database does: each call is either recorded or caught inside the sink, *)
(* its caller goes on to the next statement in either state of the        *)
(* database, no attempt of run_llm fails because of a sink, and no stage  *)
(* or pipeline error stems from one.                                       *)
C13_SinkFailuresContained ==
    /\ \A c \in pipe.sinks :
          /\ c.result \in {"recorded", "caught"}
          /\ c.caller = "continue"
          /\ c.result = "caught" <=> pipe.db = "down"
    /\ \A db \in DbStates :
          /\ AfterSink(record_llm_usage(db)) = "continue"
          /\ AfterSink(record_condensation(db)) = "continue"
    /\ llm.err # "sink_exception"
    /\ pipe.err.type \in {"none", "RuntimeError", "ValueError"}
    /\ pc \in {"ch_write", "arc_write", "part_write", "single_write",
               "red_group_write"} =>
          \E c \in pipe.sinks : c.sink = "record_condensation"
    /\ llm.status = "returned" =>
          \E c \in pipe.sinks : c.sink = "record_llm_usage"

(* Both sinks failed on a unit whose text is then written to its file     *)
(* exactly as the provider returned it.                                    *)
C13_Witness ==
    /\ pipe.db = "down"
    /\ {c.sink : c \in {x \in pipe.sinks : x.result = "caught"}} =
          {"record_llm_usage", "record_condensation"}
    /\ stage = "chapter"
    /\ pc = "ch_loop"
    /\ \E i \in loc.wrote : chOut[i] = <<i>>

-----------------------------------------------------------------------------
(* Properties of compute_arc_ranges, checked under SpecGroups *)

(* The least q with q * k >= n. *)
CeilDiv(n, k) == CHOOSE q \in 0..n : q * k >= n /\ (q - 1) * k < n

RECURSIVE Concat(_)
Concat(seqs) ==
    IF seqs = <<>> THEN <<>> ELSE Head(seqs) \o Concat(Tail(seqs))

(* C14: compute_arc_ranges(files, k) returns ceil(n/k) groups numbered    *)
(* 1..ceil(n/k) in order; every group but the last has k members, the     *)
(* last has n - k * (ceil(n/k) - 1); group a holds the files at positions *)
(* (a-1)k+1 .. min(ak, n), so the groups in order concatenate to the      *)
(* input; reduce_until_fit cuts at the same positions; a second call      *)
(* returns the same groups.                                                *)
C14_PositionalGroups ==
    pc \in {"grouped", "regrouped"} /\ stage = "groups" =>
        LET n == Len(loc.files)
            k == loc.chapters_per_arc
            g == CeilDiv(n, k)
            arcs == loc.arcs
        IN /\ Len(arcs) = g
           /\ \A a \in 1..g :
                 /\ arcs[a].arc_index = a
                 /\ Len(arcs[a].chapters) = IF a < g THEN k
                                            ELSE n - k * (g - 1)
                 /\ \A j \in 1..Len(arcs[a].chapters) :
                       arcs[a].chapters[j] = loc.files[(a - 1) * k + j]
                 /\ GroupIndex((a - 1) * k, k) = a
           /\ Concat([a \in 1..g |-> arcs[a].chapters]) = loc.files
           /\ NumGroups(n, k) = g
           /\ n = 23 /\ k = 10 =>
                 [a \in 1..g |-> Len(arcs[a].chapters)] = <<10, 10, 3>>
           /\ pc = "regrouped" => loc.again = arcs

(* 23 files in descending order with k = 10, grouped twice. *)
C14_Witness ==
    /\ stage = "groups"
    /\ pc = "regrouped"
    /\ Len(loc.files) = 23
    /\ loc.chapters_per_arc = 10
    /\ loc.files[1].stem = 23
    /\ Len(loc.arcs) = 3

-----------------------------------------------------------------------------
(* Properties of the concrete scenario, checked under SpecScenario *)

(* The first run_pipeline call, without skip flags, has returned. *)
ScenarioRunDone ==
    /\ pipe.n = 1
    /\ pipe.skip = {}
    /\ pipe.at = "none"
    /\ pipe.out = Returned

(* C15: the from-scratch run over 23 chapters, whose 3 merged arcs exceed *)
(* the input limit while one compression of them fits it, has made one    *)
(* compressor call per chapter, one per arc and one in the novel stage:   *)
(* 27 in all.                                                               *)
C15_TwentySevenCalls ==
    ScenarioRunDone =>
        /\ pipe.calls.chapter = rawN
        /\ pipe.calls.arc = NumGroups(rawN, CHAPTERS_PER_ARC)
        /\ pipe.calls.novel = 1
        /\ rawN = 23 =>
              pipe.calls.chapter + pipe.calls.arc + pipe.calls.novel = 27

-----------------------------------------------------------------------------
(* Properties of split_units_for_output_budget, checked under SpecSplit *)

RECURSIVE SumTokens(_)
SumTokens(units) ==
    IF units = <<>> THEN 0
    ELSE estimate_tokens(Head(units)) + SumTokens(Tail(units))

Oversized(unit, max) == estimate_tokens(unit) > max

(* C17: the chunks are non-empty and concatenate to the input; a chunk's  *)
(* summed token estimate is within max unless it is one unit that exceeds *)
(* max by itself; two consecutive units are in different chunks only if   *)
(* the later one would take the earlier one's chunk over max, or one of   *)
(* the two exceeds max.                                                    *)
C17_GreedyPartition ==
    stage = "split" /\ pc = "split" =>
        LET chunks == loc.chunks
            max == loc.max_input_tokens
        IN /\ \A c \in DOMAIN chunks : chunks[c] # <<>>
           /\ Concat(chunks) = loc.units
           /\ \A c \in DOMAIN chunks :
                 \/ SumTokens(chunks[c]) <= max
                 \/ Len(chunks[c]) = 1 /\ Oversized(chunks[c][1], max)
           /\ \A c \in 1..(Len(chunks) - 1) :
                 LET earlier == chunks[c][Len(chunks[c])]
                     later == chunks[c + 1][1]
                 IN \/ SumTokens(chunks[c]) + estimate_tokens(later) > max
                    \/ Oversized(earlier, max)
                    \/ Oversized(later, max)

(* Four units cut into three chunks: two units together, an oversized     *)
(* unit alone, and the unit after it.                                      *)
C17_Witness ==
    /\ stage = "split"
    /\ pc = "split"
    /\ Len(loc.units) = 4
    /\ Len(loc.chunks) = 3
    /\ Len(loc.chunks[1]) = 2
    /\ Oversized(loc.chunks[2][1], loc.max_input_tokens)
    /\ ~Oversized(loc.chunks[3][1], loc.max_input_tokens)

-----------------------------------------------------------------------------
(* Properties of the novel stage's outputs, checked under Spec *)

(* A novel-stage run has returned normally and nothing was started since. *)
NovelRunDone ==
    stage = "novel" /\ pc = "idle" /\ exit = "ok" /\ loc # LocIdle

(* The content of a file of the novel output directory, by name. *)
NovelDirFile(name) ==
    IF name = NovelFilename THEN novelOut ELSE partOut[ParseInt(name.digits)]

(* The number of output parts of the run, and their names in chunk order. *)
PartsProduced == IF needs_output_chunking THEN Len(loc.chunks) ELSE 1

PartNames ==
    IF needs_output_chunking
    THEN [j \in 1..Len(loc.chunks) |-> PartFilename(j)]
    ELSE <<NovelFilename>>

ManifestListsParts ==
    /\ manifest # NoManifest
    /\ manifest.parts = PartsProduced
    /\ manifest.order = PartNames
    /\ ~needs_output_chunking => Len(manifest.order) = 1

(* C18 as stated: after a novel-stage run that produced k parts the       *)
(* manifest lists the k part files in chunk order, one entry on the       *)
(* single-output path, and the contents of the listed files put end to    *)
(* end are the text of novel.condensed.txt.                                *)
C18_ManifestConcatenation ==
    NovelRunDone =>
        /\ ManifestListsParts
        /\ Concat([j \in DOMAIN manifest.order |->
                      NovelDirFile(manifest.order[j])]) = novelOut

(* C18, amended: the same, with the contents of the listed files joined   *)
(* by the "\n\n" separator.                                                *)
C18_ManifestJoin ==
    NovelRunDone =>
        /\ ManifestListsParts
        /\ Join([j \in DOMAIN manifest.order |->
                    NovelDirFile(manifest.order[j])]) = novelOut

(* A run that produced two non-empty parts. *)
C18_Witness ==
    /\ NovelRunDone
    /\ manifest # NoManifest
    /\ manifest.parts = 2
    /\ \A j \in 1..2 : getsize(partOut[j]) > 0
    /\ loc.invoked = 2

(* A novel-stage run that follows a normally returned novel-stage run;    *)
(* no other stage ran in between, so the condensed arcs are unchanged.    *)
NovelRerun ==
    /\ stage = "novel"
    /\ loc # LocIdle
    /\ loc.prevStage = "novel"
    /\ loc.prevExit = "ok"

(* C19: a novel-stage run after a normally returned one, on the same      *)
(* arcs, invokes the compressor for nothing, neither in the input         *)
(* reduction nor for the output, and when it returns the group files, the *)
(* part files and novel.condensed.txt are as it found them.                *)
C19_NovelRerunReuses ==
    NovelRerun =>
        /\ hist.sent = <<>>
        /\ loc.invoked = 0
        /\ pc # "llm"
        /\ pc = "idle" /\ exit = "ok" =>
              /\ grpOut = loc.snap.grp
              /\ partOut = loc.snap.part
              /\ novelOut = loc.snap.novel

-----------------------------------------------------------------------------
(* Properties of run_pipeline's finally block, checked under SpecPipe *)

(* A stage raised inside run_pipeline, and run_pipeline is over. *)
StageErrorLeft ==
    /\ pipe.err.from = "stage"
    /\ pipe.at = "none"
    /\ pipe.out # NoErr

(* C20: when a stage raised inside run_pipeline, the five statements of   *)
(* the finally block have all run, in order, before the error leaves      *)
(* run_pipeline, and the error that leaves is the stage's own.             *)
C20_FinallyThenOriginalError ==
    /\ StageErrorLeft =>
          /\ pipe.fin = FinallySteps
          /\ pipe.out = pipe.err
    /\ pipe.err.from = "stage" /\ pipe.at = "finally" =>
          pipe.fin = SubSeq(FinallySteps, 1, Len(pipe.fin))

-----------------------------------------------------------------------------
(* Properties of persistence and of the resume scan *)

(* The file of a unit still holds the non-empty part that a killed write   *)
(* left in it.                                                             *)
TornFile(f, t) == isfile(f) /\ getsize(f) > 0 /\ f = t.left

(* C21: persisting a unit is atomic with respect to a crash.  When the     *)
(* process was killed while the output of a chapter, of an arc or of an    *)
(* intermediate group was being written, the file it left behind is never  *)
(* a non-empty part of the text that the resume scan takes for a complete  *)
(* unit (detect_missing_chapters, detect_missing_arcs, and the             *)
(* os.path.isfile test of reduce_until_fit).                               *)
C21_AtomicPersist ==
    pc = "idle" =>
       \A t \in audit.torn :
          /\ t.kind = "chapter" /\ TornFile(chOut[t.n], t) =>
                ~ChapterDone(RawName(t.n))
          /\ t.kind = "arc" /\ TornFile(arcOut[t.n], t) =>
                t.n \notin Range(detect_missing_arcs.done)
          /\ t.kind = "group" /\ TornFile(grpOut[t.g], t) =>
                ~isfile(grpOut[t.g])

-----------------------------------------------------------------------------
(* Properties of concurrent launches, checked under SpecLaunches *)

(* C22: when the same stage is launched twice on one corpus, the output    *)
(* file of a unit is created by at most one of the two processes, and no   *)
(* process opens for writing, and so truncates, a file that already holds  *)
(* a persisted unit.                                                       *)
C22_ExclusiveCreate ==
    /\ \A i \in 1..rawN :
          Cardinality({p \in Launches : i \in loc[p].wrote}) <= 1
    /\ audit.rewrote = {}

-----------------------------------------------------------------------------
(* Frame of the stages, checked under Spec *)

(* No file of the directory is unlinked by the step. *)
NoneDeleted(dir, dirNext) ==
    \A k \in DOMAIN dir : isfile(dir[k]) => isfile(dirNext[k])

(* C23: no stage mutates or deletes upstream units.  The set of raw        *)
(* chapters never changes; while the arc stage runs no condensed chapter   *)
(* file changes; while the novel stage runs no condensed chapter file and  *)
(* no condensed arc file changes; and no step of any stage removes a file  *)
(* from any directory.                                                     *)
C23_UpstreamUntouched ==
    [][/\ rawN' = rawN
       /\ stage' = "arc" => chOut' = chOut
       /\ stage' = "novel" => chOut' = chOut /\ arcOut' = arcOut
       /\ NoneDeleted(chOut, chOut')
       /\ NoneDeleted(arcOut, arcOut')
       /\ NoneDeleted(partOut, partOut')
       /\ NoneDeleted(grpOut, grpOut')
       /\ isfile(novelOut) => isfile(novelOut')
       /\ manifest # NoManifest => manifest' # NoManifest
      ]_vars

(* The novel stage has written its output from arcs that the arc stage     *)
(* wrote from the condensed chapters.                                      *)
C23_Witness ==
    /\ stage = "novel"
    /\ isfile(novelOut) /\ getsize(novelOut) > 0
    /\ [kind |-> "arc", n |-> 1] \in audit.written
    /\ \A i \in 1..rawN : isfile(chOut[i]) /\ getsize(chOut[i]) > 0

-----------------------------------------------------------------------------
(* Shrinking of the layers, checked under SpecReduce *)

(* C24: every recursive step of reduce_until_fit with units_per_group >= 2 *)
(* hands a strictly shorter list of units to the next layer, whatever the  *)
(* size n >= 1 of the current layer.                                       *)
C24_LayersShrink ==
    stage = "reduce" /\ loc.units_per_group >= 2 =>
       \A k \in 1..(Len(hist.layers) - 1) :
          Len(hist.layers[k]) >= 1 =>
             Len(hist.layers[k + 1]) < Len(hist.layers[k])

-----------------------------------------------------------------------------
(* Grouping of chapters into arcs across runs, checked under Spec *)

(* C25: whatever runs of the chapter and arc stages were interrupted and   *)
(* resumed before, the chapters merged into arc i are the condensed        *)
(* chapters at positions (i-1)*CHAPTERS_PER_ARC + 1 .. min(i *             *)
(* CHAPTERS_PER_ARC, N) of the sorted list of all N chapters of the        *)
(* corpus, as in a run from scratch, and each of them is present upstream  *)
(* (condensed, non-empty) when the arc is condensed.                       *)
C25_ArcMembersAsFromScratch ==
    stage = "arc" /\ pc \in {"llm", "arc_ret", "arc_write"} =>
       LET i == loc.missing[loc.k]
           first == (i - 1) * CHAPTERS_PER_ARC + 1
           last == Min(i * CHAPTERS_PER_ARC, rawN)
       IN /\ loc.all[i].chapters =
                [j \in 1..(last - first + 1) |->
                    get_expected_output_filename(RawName(first + j - 1))]
          /\ \A c \in first..last : ChapterDone(RawName(c))

-----------------------------------------------------------------------------
(* Stage inputs in run_pipeline, checked under SpecPipe *)

(* run_pipeline is in the block of stage s and the stage is started or    *)
(* skipped there (its skip is not refused).                                *)
StageGoesAhead(s) ==
    /\ pipe.entry = "run_pipeline"
    /\ pipe.at = s
    /\ s \notin pipe.skip \/ Validates(s)

(* C26: in run_pipeline, whenever the arc stage is started or skipped,     *)
(* every raw chapter has a non-empty condensed chapter file, whether the   *)
(* chapter stage was executed or skipped; and whenever the novel stage is  *)
(* started, every expected arc has a non-empty condensed arc file,         *)
(* whether the arc stage was executed or skipped.                          *)
C26_StageInputComplete ==
    /\ StageGoesAhead("arc") =>
          \A i \in 1..rawN : isfile(chOut[i]) /\ getsize(chOut[i]) > 0
    /\ StageGoesAhead("novel") /\ "novel" \notin pipe.skip =>
          \A a \in 1..NumGroups(rawN, CHAPTERS_PER_ARC) :
             isfile(arcOut[a]) /\ getsize(arcOut[a]) > 0

-----------------------------------------------------------------------------
(* Order of processing and persistence in a run, checked under Spec *)

(* The unit at position j of the running stage's missing list. *)
MissingUnit(j) ==
    IF stage = "chapter" THEN loc.missing[j].stem ELSE loc.missing[j]

(* The first m units of the missing list. *)
MissingPrefix(m) == {MissingUnit(j) : j \in 1..m}

(* The units whose file this run has written and closed. *)
PersistedByRun ==
    loc.wrote \ (IF pc \in {"ch_write", "arc_write"}
                 THEN {MissingUnit(loc.k)} ELSE {})

(* C27: the chapter and arc stages process the missing units in ascending  *)
(* original order, and the output of a unit is in the store before the     *)
(* compressor is invoked for the next one: at every point of a run the     *)
(* units it has persisted are a prefix of its missing list, and at most    *)
(* one invoked unit is not persisted yet.                                  *)
C27_PersistInOrder ==
    StageRunning =>
       /\ \A j \in 1..(Len(loc.missing) - 1) : MissingUnit(j) < MissingUnit(j + 1)
       /\ \E m \in 0..Len(loc.missing) : PersistedByRun = MissingPrefix(m)
       /\ \E m \in 0..Len(loc.missing) : loc.invoked = MissingPrefix(m)
       /\ PersistedByRun \subseteq loc.invoked
       /\ Cardinality(loc.invoked \ PersistedByRun) <= 1
       /\ \A u \in PersistedByRun : isfile(StageFiles[u])

(* The compressor is invoked for the second missing unit of a run. *)
C27_Witness ==
    /\ StageRunning
    /\ pc = "llm"
    /\ Len(loc.missing) >= 2
    /\ loc.k = 2
    /\ PersistedByRun = {MissingUnit(1)}

-----------------------------------------------------------------------------
(* Properties of resume detection, checked under SpecScan *)

(* The sequence lists its numbers in strictly ascending order. *)
Ascending(seq) == \A j \in 1..(Len(seq) - 1) : seq[j] < seq[j + 1]

Stems(files) == [j \in DOMAIN files |-> files[j].stem]

(* The arcs expected from the condensed chapter files now in the upstream  *)
(* directory.                                                              *)
ExpectedArcsNow ==
    1..CeilDiv(Cardinality({i \in DOMAIN chOut : isfile(chOut[i])}),
               CHAPTERS_PER_ARC)

(* done and missing split the expected set, in ascending order. *)
Partitions(done, missing, expected) ==
    /\ Range(done) \cap Range(missing) = {}
    /\ Range(done) \cup Range(missing) = expected
    /\ Ascending(done)
    /\ Ascending(missing)

(* C28: resume detection returns a partition of the expected units.  For   *)
(* detect_missing_chapters and detect_missing_arcs, done and missing are   *)
(* disjoint, together they are exactly the expected set computed from the  *)
(* current upstream listing, both are in ascending order, and an output    *)
(* file of no expected unit is neither counted as done nor removed.        *)
C28_ScanPartitions ==
    /\ loc.ch.status = "returned" =>
          Partitions(Stems(loc.ch.done), Stems(loc.ch.missing), 1..rawN)
    /\ loc.arc.status = "returned" =>
          Partitions(loc.arc.done, loc.arc.missing, ExpectedArcsNow)
    /\ loc.snap = <<rawN, chOut, arcOut>>

(* Both scans returned on a store that holds a non-empty chapter output    *)
(* without a raw chapter and a non-empty arc file beyond the expected      *)
(* arcs, with done and missing units of both kinds.                        *)
C28_Witness ==
    /\ loc.ch.status = "returned"
    /\ loc.arc.status = "returned"
    /\ NonEmptyFile(chOut[rawN + 1])
    /\ \E a \in DOMAIN arcOut : a \notin ExpectedArcsNow /\ NonEmptyFile(arcOut[a])
    /\ loc.ch.done # <<>> /\ loc.ch.missing # <<>>
    /\ loc.arc.done # <<>>

-----------------------------------------------------------------------------
(* Properties of evaluate_tag, checked under SpecTags *)

(* The items of a boost or penalty list whose condition the evidence meets. *)
Satisfied(ev, items) == {j \in DOMAIN items : check_condition(ev, items[j].cond)}

RECURSIVE SumOver(_, _)
SumOver(items, J) ==
    IF J = {} THEN 0
    ELSE LET j == CHOOSE x \in J : TRUE
         IN items[j].score + SumOver(items, J \ {j})

(* Some required evidence item of the rule is missing. *)
RequiredMissing(ev, rule) ==
    \E j \in DOMAIN rule.required : ~check_condition(ev, rule.required[j])

(* C29: evaluate_tag returns confidence 0 whenever a required evidence     *)
(* item of the rule is missing; otherwise it returns base_score plus the   *)
(* satisfied boosts minus the satisfied penalties, clamped to [0, 1]; the  *)
(* confidence always lies in [0, 1].                                       *)
C29_ClampedConfidence ==
    loc.result # NoTagResult =>
       LET score == loc.rule.base_score
                       + SumOver(loc.rule.boosts, Satisfied(loc.ev, loc.rule.boosts))
                       - SumOver(loc.rule.penalties,
                                 Satisfied(loc.ev, loc.rule.penalties))
       IN /\ RequiredMissing(loc.ev, loc.rule) => loc.result.confidence = 0
          /\ ~RequiredMissing(loc.ev, loc.rule) =>
                loc.result.confidence =
                   (IF score < 0 THEN 0
                    ELSE IF score > ScoreUnit THEN ScoreUnit ELSE score)
          /\ loc.result.confidence >= 0
          /\ loc.result.confidence <= ScoreUnit

(* The required evidence is there, a boost and a penalty apply, and the    *)
(* penalties outweigh base score and boosts: the confidence is clamped to  *)
(* 0.                                                                      *)
C29_Witness ==
    /\ loc.result # NoTagResult
    /\ loc.rule.required # <<>>
    /\ loc.result.required_met
    /\ loc.result.boosts_applied > 0
    /\ loc.result.penalties_applied > loc.rule.base_score + loc.result.boosts_applied
    /\ loc.result.confidence = 0

-----------------------------------------------------------------------------
(* Properties of what the novel stage takes from disk on resume *)

(* The novel stage is running or has returned, with its locals in place. *)
NovelLocals == stage = "novel" /\ loc # LocIdle

(* The file of part n, of group g or of the novel holds what a compressor *)
(* call returned for the text inp.                                        *)
MadeFrom(kind, n, g, inp) == Made(kind, n, g, inp) \in audit.made

(* C30: every artifact the novel stage loads from disk instead of calling *)
(* the compressor (an intermediate group file in reduce_until_fit, a part *)
(* file, or novel.condensed.txt) is the compressor's output for the text  *)
(* the current run would have sent for that position: the join of the     *)
(* group's units of the current layer, the join of the part's chunk, the  *)
(* join of the units for output.                                          *)
C30_ReusedForSameInput ==
    NovelLocals =>
        /\ \A k \in DOMAIN hist.res :
              hist.res[k].from = "disk" =>
                 MadeFrom("group", 0, <<hist.res[k].layer, hist.res[k].group>>,
                          ExpectedGroupText(hist.layers[hist.res[k].layer + 1],
                                            hist.res[k].group,
                                            DEFAULT_UNITS_PER_GROUP))
        /\ \A k \in DOMAIN loc.output_parts :
              PartFilename(k) \notin loc.wrote =>
                 MadeFrom("part", k, <<0, 0>>, Join(loc.chunks[k]))
        /\ (/\ pc = "idle"
            /\ exit = "ok"
            /\ ~needs_output_chunking
            /\ NovelFilename \notin loc.wrote)
              => MadeFrom("novel", 0, <<0, 0>>, Join(loc.units_for_output))

=============================================================================
